---- MODULE Spec2Model ----
(***************************************************************************)
(* NotePro: offline-first synchronisation of notes and tags between the    *)
(* browser's localStorage (Local Store), the Express/MemStorage backend    *)
(* (Remote API + Server Repository) and the per-user cloud snapshot.       *)
(*                                                                         *)
(* JavaScript objects are modelled as functions from field names to        *)
(* values, so that a missing field, object spread and JSON round trips     *)
(* behave as in the source.  Strings that the code inspects (titles,       *)
(* contents, tag names, queries) are sequences of one-character strings.   *)
(* Timestamps are the value of the clock `now` when `new Date()` ran.      *)
(***************************************************************************)
EXTENDS Integers, Sequences, FiniteSets, TLC

VARIABLES
    localStorage,   \* the browser's key-value store (offline lists, last sync, cloud mock)
    server,         \* the MemStorage singleton behind the Remote API
    online,         \* navigator.onLine
    userId,         \* currentUser?.uid : <<>> when signed out, <<uid>> when signed in
    now,            \* the wall clock read by new Date() / Date.now()
    last,           \* the intent whose query/mutation function just ran, with what it
                    \* did and returned, until its callbacks have run; NoIntent otherwise
    left,           \* number of intents the behaviour may still issue
    pending,        \* history: placeholder ids of notes created only locally, not yet re-issued
    reconciled,     \* history: [p, s] when the create intent of placeholder p was re-issued
                    \*          and the server accepted it with id s
    dirty,          \* history: note id -> the field values a local-only mutation gave it
    flight,         \* the requests of the write intents that await their response
    trash,          \* history: the note a delete intent has just soft-deleted, as it
                    \*          was before, until the next intent completes
    conv,           \* the markdown conversion the export route is carrying out
    editor,         \* the mounted TitleEditor: its title, its debounced closures, timers
    listeners       \* the online/offline listeners of window and who registered them

vars == <<localStorage, server, online, userId, now, last, left, pending, reconciled, dirty,
          flight, trash, conv, editor, listeners>>

----------------------------------------------------------------------------
(* Bounds of the model                                                     *)

MaxNotes == 1      \* notes the server is asked to create
MaxTags == 1       \* tags the server is asked to create beyond the five defaults
MaxTemp == 1       \* placeholder ids are drawn from -MaxTemp..0
MaxIntents == 2    \* intents issued in one behaviour of Spec
MaxDeep == 3       \* intents issued in one behaviour of SpecNotes
MaxRel == 4        \* intents issued in one behaviour of SpecTags
MaxRace == 3       \* intents issued in one behaviour of SpecRace
MaxTagged == 4     \* intents issued in one behaviour of SpecTagged
MaxSearch == 4     \* intents and searches issued in one behaviour of SpecSearch
MaxStored == 3     \* Local Store calls made in one behaviour of SpecStored
MaxExport == 2     \* intents issued in one behaviour of SpecExport
MaxTurns == 3      \* turns a loop of htmlToMarkdown is followed for
MaxServer == 4     \* intents issued in one behaviour of SpecServer
MaxIds == 2        \* notes, and tags, the server is asked to create under SpecServer
MaxEditor == 3     \* intents issued in one behaviour of SpecEditor
MaxEdits == 2      \* title edits typed in one behaviour of SpecEditor
MaxClock == 1600   \* milliseconds the clock of the editor is followed for
MaxRegs == 3       \* calls of setupConnectivityListeners in one behaviour

----------------------------------------------------------------------------
(* Strings                                                                 *)

Untitled == <<"U", "n", "t", "i", "t", "l", "e", "d">>
Trip == <<"T", "r", "i", "p">>
EmptyStr == <<>>
UntitledTag == <<"U", "n", "t", "i", "t", "l", "e", "d", " ", "T", "a", "g">>

\* String.prototype.toLowerCase
toLowerCase(s) ==
    LET LowerOf(c) == CASE c = "U" -> "u" [] c = "T" -> "t" [] c = "W" -> "w"
                        [] c = "P" -> "p" [] c = "I" -> "i" [] c = "M" -> "m"
                        [] c = "H" -> "h" [] OTHER -> c
    IN  [i \in 1..Len(s) |-> LowerOf(s[i])]

\* String.prototype.includes
includes(s, q) ==
    \E i \in 0..(Len(s) - Len(q)) : \A j \in 1..Len(q) : s[i + j] = q[j]

----------------------------------------------------------------------------
(* JavaScript objects                                                      *)

Has(o, k) == k \in DOMAIN o

\* { ...a, ...b }
Spread(a, b) == [k \in (DOMAIN a) \cup (DOMAIN b) |-> IF k \in DOMAIN b THEN b[k] ELSE a[k]]

\* the object restricted to the keys a zod object schema keeps
Pick(o, keys) == [k \in (DOMAIN o) \cap keys |-> o[k]]

\* truthiness of a boolean field that may be missing (undefined is falsy)
Truthy(o, k) == Has(o, k) /\ o[k]

\* a.id === b.id, where a missing id is undefined
SameId(a, b) == IF Has(a, "id") THEN Has(b, "id") /\ a.id = b.id ELSE ~Has(b, "id")

\* o.id === id for a number id
IdIs(o, id) == Has(o, "id") /\ o.id = id

\* Array.prototype.findIndex, 0 when absent (JavaScript: -1)
FindIndex(s, P(_)) == IF \E i \in 1..Len(s) : P(s[i])
                      THEN CHOOSE i \in 1..Len(s) : P(s[i]) /\ \A j \in 1..(i - 1) : ~P(s[j])
                      ELSE 0

\* Array.prototype.map
Map(s, F(_)) == [i \in 1..Len(s) |-> F(s[i])]

Range(s) == {s[i] : i \in 1..Len(s)}

----------------------------------------------------------------------------
(* Local Store: the offline lists kept in localStorage                     *)

\* localStorage before anything was stored: getStoredData falls back to [] for a
\* missing list, getLastSyncTime to 0, getUserNotes to null (here <<>>)
EmptyStorage == [notes |-> <<>>, tags |-> <<>>, noteTags |-> <<>>,
                 lastSync |-> 0, cloudNotes |-> <<>>]

\* Values of a localStorage key that are not the JSON text of a list.  A key of
\* the model holds the list its text parses to (<<>> also when the key is
\* missing); these two stand for a text JSON.parse rejects and for a text that
\* parses to an object or to null.
Unparseable == <<[json |-> "unparseable"]>>

NotAList == <<[json |-> "object"]>>

\* data ? JSON.parse(data) : fallback, with the fallback also when getItem or
\* JSON.parse throws; what JSON.parse returns is returned as it is
getStoredData(raw, fallback) ==
    IF raw = <<>> \/ raw = Unparseable THEN fallback ELSE raw

getOfflineNotes(ls) == getStoredData(ls.notes, <<>>)

getOfflineTags(ls) == getStoredData(ls.tags, <<>>)

getOfflineNoteTags(ls) == getStoredData(ls.noteTags, <<>>)

storeOfflineNotes(ls, notes) == [ls EXCEPT !.notes = notes]

storeOfflineTags(ls, tags) == [ls EXCEPT !.tags = tags]

storeOfflineNoteTags(ls, noteTags) == [ls EXCEPT !.noteTags = noteTags]

\* the tags of the local tag list related to noteId, in tag-list order
OfflineTagsOf(ls, noteId) ==
    LET noteTagIds == {nt.tagId : nt \in {x \in Range(getOfflineNoteTags(ls)) : x.noteId = noteId}}
        Related(tag) == tag.id \in noteTagIds
    IN  SelectSeq(getOfflineTags(ls), Related)

\* <<>> when the note is absent (undefined), <<note with tags>> otherwise; a record
\* without an id is never found because noteId is a number
getOfflineNoteWithTags(ls, noteId) ==
    LET notes == getOfflineNotes(ls)
        Found(n) == IdIs(n, noteId)
        i == FindIndex(notes, Found)
    IN  IF i = 0 THEN <<>>
        ELSE <<Spread(notes[i], [tags |-> OfflineTagsOf(ls, noteId)])>>

\* a record without an id matches no relation row (undefined === number is false)
WithOfflineTags(ls, note) ==
    Spread(note, [tags |-> IF Has(note, "id") THEN OfflineTagsOf(ls, note.id) ELSE <<>>])

getOfflineNotesWithTags(ls) ==
    LET Resolve(note) == WithOfflineTags(ls, note)
    IN  Map(getOfflineNotes(ls), Resolve)

\* saveOfflineNote without the lookup: the note is always pushed
saveOfflineNote_append(ls, note) ==
    storeOfflineNotes(ls, Append(getOfflineNotes(ls), note))

saveOfflineNote(ls, note) ==
    LET notes == getOfflineNotes(ls)
        Same(n) == SameId(n, note)
        existingNoteIndex == FindIndex(notes, Same)
    IN  storeOfflineNotes(ls, IF existingNoteIndex > 0
                              THEN [notes EXCEPT ![existingNoteIndex] = note]
                              ELSE Append(notes, note))

deleteOfflineNote(ls, noteId) ==
    LET KeepNote(n) == ~IdIs(n, noteId)
        KeepRel(nt) == nt.noteId # noteId
    IN  storeOfflineNoteTags(storeOfflineNotes(ls, SelectSeq(getOfflineNotes(ls), KeepNote)),
                             SelectSeq(getOfflineNoteTags(ls), KeepRel))

saveOfflineTag(ls, tag) ==
    LET tags == getOfflineTags(ls)
        Same(t) == SameId(t, tag)
        existingTagIndex == FindIndex(tags, Same)
    IN  storeOfflineTags(ls, IF existingTagIndex > 0
                             THEN [tags EXCEPT ![existingTagIndex] = tag]
                             ELSE Append(tags, tag))

\* deleteOfflineTag without the filter of the relations
deleteOfflineTag_keepRelations(ls, tagId) ==
    LET KeepTag(t) == ~IdIs(t, tagId)
    IN  storeOfflineTags(ls, SelectSeq(getOfflineTags(ls), KeepTag))

deleteOfflineTag(ls, tagId) ==
    LET KeepTag(t) == ~IdIs(t, tagId)
        KeepRel(nt) == nt.tagId # tagId
    IN  storeOfflineNoteTags(storeOfflineTags(ls, SelectSeq(getOfflineTags(ls), KeepTag)),
                             SelectSeq(getOfflineNoteTags(ls), KeepRel))

\* addOfflineTagToNote without the check for an existing relation
addOfflineTagToNote_unchecked(ls, noteId, tagId) ==
    storeOfflineNoteTags(ls, Append(getOfflineNoteTags(ls), [noteId |-> noteId, tagId |-> tagId]))

addOfflineTagToNote(ls, noteId, tagId) ==
    LET noteTags == getOfflineNoteTags(ls)
        exists == \E nt \in Range(noteTags) : nt.noteId = noteId /\ nt.tagId = tagId
    IN  IF exists THEN ls
        ELSE storeOfflineNoteTags(ls, Append(noteTags, [noteId |-> noteId, tagId |-> tagId]))

removeOfflineTagFromNote(ls, noteId, tagId) ==
    LET Keep(nt) == ~(nt.noteId = noteId /\ nt.tagId = tagId)
    IN  storeOfflineNoteTags(ls, SelectSeq(getOfflineNoteTags(ls), Keep))

\* note.title.toLowerCase() and note.content.toLowerCase() are evaluated without a
\* guard, left to right: the predicate raises a TypeError on a record that lacks
\* title, or whose title does not match and that lacks content
MatchThrows(note, query) ==
    \/ ~Has(note, "title")
    \/ /\ ~includes(toLowerCase(note.title), toLowerCase(query))
       /\ ~Has(note, "content")

MatchesQuery(note, query) ==
    \/ includes(toLowerCase(note.title), toLowerCase(query))
    \/ includes(toLowerCase(note.content), toLowerCase(query))
    \/ \E tag \in Range(note.tags) : includes(toLowerCase(tag.name), toLowerCase(query))

\* a result is [threw |-> FALSE, value |-> v] or [threw |-> TRUE, error |-> e]
Return(v) == [threw |-> FALSE, value |-> v]

Throw(e) == [threw |-> TRUE, error |-> e]

searchOfflineNotes(ls, query) ==
    LET notesWithTags == getOfflineNotesWithTags(ls)
        Match(note) == MatchesQuery(note, query)
    IN  IF \E note \in Range(notesWithTags) : MatchThrows(note, query)
        THEN Throw("TypeError")
        ELSE Return(SelectSeq(notesWithTags, Match))

setLastSyncTime(ls, timestamp) == [ls EXCEPT !.lastSync = timestamp]

getLastSyncTime(ls) == ls.lastSync

----------------------------------------------------------------------------
(* Server Repository: MemStorage.  A Map is a sequence in insertion order; *)
(* set() on an existing key keeps the entry's position.                    *)

DefaultTags == <<[id |-> 1, name |-> <<"W", "o", "r", "k">>, color |-> "#3B82F6"],
                 [id |-> 2, name |-> <<"P", "e", "r", "s", "o", "n", "a", "l">>, color |-> "#10B981"],
                 [id |-> 3, name |-> <<"I", "d", "e", "a", "s">>, color |-> "#8B5CF6"],
                 [id |-> 4, name |-> <<"M", "e", "e", "t", "i", "n", "g">>, color |-> "#8B5CF6"],
                 [id |-> 5, name |-> <<"P", "l", "a", "n", "n", "i", "n", "g">>, color |-> "#3B82F6"]>>

\* the state the constructor leaves: five default tags, ids from 1
MemStorage_new == [notes |-> <<>>, noteCurrentId |-> 1,
                   tags |-> DefaultTags, tagCurrentId |-> 6,
                   noteTags |-> <<>>, noteTagCurrentId |-> 1]

\* Map.prototype.get: <<>> for undefined
MapGet(m, id) == LET Is(e) == e.id = id IN SelectSeq(m, Is)

\* Map.prototype.set
MapSet(m, e) == LET Is(x) == x.id = e.id
                    i == FindIndex(m, Is)
                IN  IF i > 0 THEN [m EXCEPT ![i] = e] ELSE Append(m, e)

\* Map.prototype.delete
MapDelete(m, id) == LET Keep(e) == e.id # id IN SelectSeq(m, Keep)

MemStorage_getNotes(st, includeDeleted) ==
    LET Listed(note) == includeDeleted \/ ~Truthy(note, "isDeleted")
    IN  SelectSeq(st.notes, Listed)

MemStorage_getNote(st, id) == MapGet(st.notes, id)

\* returns the new repository and the created note
MemStorage_createNote(st, insertNote, t) ==
    LET id == st.noteCurrentId
        note == Spread(insertNote, [id |-> id, createdAt |-> t, updatedAt |-> t])
    IN  [st |-> [st EXCEPT !.noteCurrentId = id + 1, !.notes = MapSet(st.notes, note)],
         ret |-> note]

\* ret is <<>> for undefined
MemStorage_updateNote(st, id, noteUpdate, t) ==
    LET note == MapGet(st.notes, id)
        updatedNote == Spread(Spread(note[1], noteUpdate), [updatedAt |-> t])
    IN  IF note = <<>> THEN [st |-> st, ret |-> <<>>]
        ELSE [st |-> [st EXCEPT !.notes = MapSet(st.notes, updatedNote)],
              ret |-> <<updatedNote>>]

\* deleteNote removing the entry from the Map instead of marking it
MemStorage_deleteNote_hard(st, id, t) ==
    IF MapGet(st.notes, id) = <<>> THEN [st |-> st, ret |-> FALSE]
    ELSE [st |-> [st EXCEPT !.notes = MapDelete(st.notes, id)], ret |-> TRUE]

\* ret is the boolean the method returns
MemStorage_deleteNote(st, id, t) ==
    LET note == MapGet(st.notes, id)
        updatedNote == Spread(note[1], [isDeleted |-> TRUE, updatedAt |-> t])
    IN  IF note = <<>> THEN [st |-> st, ret |-> FALSE]
        ELSE [st |-> [st EXCEPT !.notes = MapSet(st.notes, updatedNote)], ret |-> TRUE]

\* restoreNote that stamps the note as a new one: createdAt is set as well
MemStorage_restoreNote_asNew(st, id, t) ==
    LET note == MapGet(st.notes, id)
        updatedNote == Spread(note[1], [isDeleted |-> FALSE, createdAt |-> t, updatedAt |-> t])
    IN  IF note = <<>> THEN [st |-> st, ret |-> <<>>]
        ELSE [st |-> [st EXCEPT !.notes = MapSet(st.notes, updatedNote)],
              ret |-> <<updatedNote>>]

MemStorage_restoreNote(st, id, t) ==
    LET note == MapGet(st.notes, id)
        updatedNote == Spread(note[1], [isDeleted |-> FALSE, updatedAt |-> t])
    IN  IF note = <<>> THEN [st |-> st, ret |-> <<>>]
        ELSE [st |-> [st EXCEPT !.notes = MapSet(st.notes, updatedNote)],
              ret |-> <<updatedNote>>]

MemStorage_toggleFavorite(st, id, t) ==
    LET note == MapGet(st.notes, id)
        updatedNote == Spread(note[1], [isFavorite |-> ~Truthy(note[1], "isFavorite"),
                                        updatedAt |-> t])
    IN  IF note = <<>> THEN [st |-> st, ret |-> <<>>]
        ELSE [st |-> [st EXCEPT !.notes = MapSet(st.notes, updatedNote)],
              ret |-> <<updatedNote>>]

MemStorage_getTags(st) == st.tags

MemStorage_getTag(st, id) == MapGet(st.tags, id)

\* createTag giving the new tag the lowest id no tag holds
MemStorage_createTag_reuse(st, insertTag) ==
    LET free == {i \in 1..st.tagCurrentId : MapGet(st.tags, i) = <<>>}
        id == CHOOSE i \in free : \A k \in free : i <= k
        tag == Spread(insertTag, [id |-> id])
    IN  [st |-> [st EXCEPT !.tagCurrentId = id + 1, !.tags = MapSet(st.tags, tag)],
         ret |-> tag]

MemStorage_createTag(st, insertTag) ==
    LET id == st.tagCurrentId
        tag == Spread(insertTag, [id |-> id])
    IN  [st |-> [st EXCEPT !.tagCurrentId = id + 1, !.tags = MapSet(st.tags, tag)],
         ret |-> tag]

MemStorage_updateTag(st, id, tagUpdate) ==
    LET tag == MapGet(st.tags, id)
        updatedTag == Spread(tag[1], tagUpdate)
    IN  IF tag = <<>> THEN [st |-> st, ret |-> <<>>]
        ELSE [st |-> [st EXCEPT !.tags = MapSet(st.tags, updatedTag)], ret |-> <<updatedTag>>]

\* ret is what Map.delete returns: whether the tag existed
MemStorage_deleteTag(st, id) ==
    LET KeepRel(noteTag) == noteTag.tagId # id
    IN  [st |-> [st EXCEPT !.noteTags = SelectSeq(st.noteTags, KeepRel),
                           !.tags = MapDelete(st.tags, id)],
         ret |-> MapGet(st.tags, id) # <<>>]

MemStorage_getTagsForNote(st, noteId) ==
    LET tagIds == {noteTag.tagId : noteTag \in {x \in Range(st.noteTags) : x.noteId = noteId}}
        Related(tag) == tag.id \in tagIds
    IN  SelectSeq(st.tags, Related)

MemStorage_getNoteWithTags(st, noteId) ==
    LET note == MapGet(st.notes, noteId)
    IN  IF note = <<>> THEN <<>>
        ELSE <<Spread(note[1], [tags |-> MemStorage_getTagsForNote(st, noteId)])>>

MemStorage_getNotesWithTags(st, includeDeleted) ==
    LET WithTags(note) == Spread(note, [tags |-> MemStorage_getTagsForNote(st, note.id)])
    IN  Map(MemStorage_getNotes(st, includeDeleted), WithTags)

MemStorage_addTagToNote(st, noteId, tagId) ==
    LET exists == \E noteTag \in Range(st.noteTags) :
                      noteTag.noteId = noteId /\ noteTag.tagId = tagId
        id == st.noteTagCurrentId
    IN  IF exists THEN st
        ELSE [st EXCEPT !.noteTagCurrentId = id + 1,
                        !.noteTags = MapSet(st.noteTags,
                                            [id |-> id, noteId |-> noteId, tagId |-> tagId])]

\* removeTagFromNote matching on the note alone
MemStorage_removeTagFromNote_anyTag(st, noteId, tagId) ==
    LET Is(noteTag) == noteTag.noteId = noteId
        i == FindIndex(st.noteTags, Is)
    IN  IF i > 0 THEN [st EXCEPT !.noteTags = MapDelete(st.noteTags, st.noteTags[i].id)]
        ELSE st

MemStorage_removeTagFromNote(st, noteId, tagId) ==
    LET Is(noteTag) == noteTag.noteId = noteId /\ noteTag.tagId = tagId
        i == FindIndex(st.noteTags, Is)
    IN  IF i > 0 THEN [st EXCEPT !.noteTags = MapDelete(st.noteTags, st.noteTags[i].id)]
        ELSE st

\* <<>> is the empty query; a server note always carries title and content here
\* (every create request of the client sends both)
MemStorage_searchNotes(st, query) ==
    LET lowercaseQuery == toLowerCase(query)
        Match(note) == /\ \/ includes(toLowerCase(note.title), lowercaseQuery)
                          \/ includes(toLowerCase(note.content), lowercaseQuery)
                       /\ ~Truthy(note, "isDeleted")
        WithTags(note) == Spread(note, [tags |-> MemStorage_getTagsForNote(st, note.id)])
        Blank(c) == c = " "
    IN  IF SelectSeq(query, Blank) = query
        THEN MemStorage_getNotesWithTags(st, FALSE)
        ELSE Map(SelectSeq(st.notes, Match), WithTags)

----------------------------------------------------------------------------
(* Remote API: the Express routes over the repository.  A route returns    *)
(* the new repository, the HTTP status and the JSON body.                  *)

Response(st, status, json) == [st |-> st, status |-> status, json |-> json]

NotFound(st, what) == Response(st, 404, [message |-> what])

\* the columns insertNoteSchema keeps (id, createdAt, updatedAt omitted); zod
\* strips every other key, such as tagIds
insertNoteSchema_parse(body) == Pick(body, {"title", "content", "isFavorite", "isDeleted"})

insertTagSchema_parse(body) == Pick(body, {"name", "color"})

RECURSIVE AddTags(_, _, _)
\* for (const tagId of tagIds) await storage.addTagToNote(noteId, tagId)
AddTags(st, noteId, tagIds) ==
    IF tagIds = <<>> THEN st
    ELSE AddTags(MemStorage_addTagToNote(st, noteId, Head(tagIds)), noteId, Tail(tagIds))

RECURSIVE RemoveTags(_, _, _)
RemoveTags(st, noteId, tagIds) ==
    IF tagIds = <<>> THEN st
    ELSE RemoveTags(MemStorage_removeTagFromNote(st, noteId, Head(tagIds)), noteId, Tail(tagIds))

GET_notes(st, includeDeleted) ==
    Response(st, 200, MemStorage_getNotesWithTags(st, includeDeleted))

GET_notes_search(st, q) == Response(st, 200, MemStorage_searchNotes(st, q))

GET_notes_id(st, id) ==
    LET note == MemStorage_getNoteWithTags(st, id)
    IN  IF note = <<>> THEN NotFound(st, "Note not found") ELSE Response(st, 200, note[1])

\* insertNoteSchema.parse throws a ZodError: every field of the schema is
\* optional, so only a field of the wrong type is rejected; a body with such a
\* field names it under the key "mistyped"
insertNoteSchema_rejects(body) == Has(body, "mistyped")

\* insertTagSchema.parse throws a ZodError: a field of the wrong type, or no name
insertTagSchema_rejects(body) == Has(body, "mistyped") \/ ~Has(body, "name")

POST_notes(st, body, t) ==
    LET created == MemStorage_createNote(st, insertNoteSchema_parse(body), t)
        st2 == IF Has(body, "tagIds")
               THEN AddTags(created.st, created.ret.id, body.tagIds)
               ELSE created.st
    IN  IF insertNoteSchema_rejects(body) THEN Response(st, 400, [message |-> "Validation error"])
        ELSE Response(st2, 201, MemStorage_getNoteWithTags(st2, created.ret.id)[1])

PUT_notes_id(st, id, body, t) ==
    LET updated == MemStorage_updateNote(st, id, insertNoteSchema_parse(body), t)
        currentTagIds == LET IdOf(tag) == tag.id
                         IN  Map(MemStorage_getTagsForNote(updated.st, id), IdOf)
        Gone(tagId) == tagId \notin Range(body.tagIds)
        New(tagId) == tagId \notin Range(currentTagIds)
        st2 == IF Has(body, "tagIds")
               THEN AddTags(RemoveTags(updated.st, id, SelectSeq(currentTagIds, Gone)),
                            id, SelectSeq(body.tagIds, New))
               ELSE updated.st
    IN  IF updated.ret = <<>> THEN NotFound(st, "Note not found")
        ELSE Response(st2, 200, MemStorage_getNoteWithTags(st2, id)[1])

DELETE_notes_id(st, id, t) ==
    LET deleted == MemStorage_deleteNote(st, id, t)
    IN  IF ~deleted.ret THEN NotFound(st, "Note not found")
        ELSE Response(deleted.st, 200, [success |-> TRUE])

POST_notes_id_restore(st, id, t) ==
    LET restored == MemStorage_restoreNote(st, id, t)
    IN  IF restored.ret = <<>> THEN NotFound(st, "Note not found")
        ELSE Response(restored.st, 200, MemStorage_getNoteWithTags(restored.st, id)[1])

POST_notes_id_toggle_favorite(st, id, t) ==
    LET updated == MemStorage_toggleFavorite(st, id, t)
    IN  IF updated.ret = <<>> THEN NotFound(st, "Note not found")
        ELSE Response(updated.st, 200, MemStorage_getNoteWithTags(updated.st, id)[1])

GET_tags(st) == Response(st, 200, MemStorage_getTags(st))

POST_tags(st, body) ==
    LET created == MemStorage_createTag(st, insertTagSchema_parse(body))
    IN  IF insertTagSchema_rejects(body) THEN Response(st, 400, [message |-> "Validation error"])
        ELSE Response(created.st, 201, created.ret)

PUT_tags_id(st, id, body) ==
    LET updated == MemStorage_updateTag(st, id, insertTagSchema_parse(body))
    IN  IF updated.ret = <<>> THEN NotFound(st, "Tag not found")
        ELSE Response(updated.st, 200, updated.ret[1])

DELETE_tags_id(st, id) ==
    LET deleted == MemStorage_deleteTag(st, id)
    IN  IF ~deleted.ret THEN NotFound(deleted.st, "Tag not found")
        ELSE Response(deleted.st, 200, [success |-> TRUE])

POST_notes_tags(st, noteId, tagId) ==
    LET st2 == MemStorage_addTagToNote(st, noteId, tagId)
    IN  IF MemStorage_getNote(st, noteId) = <<>> THEN NotFound(st, "Note not found")
        ELSE IF MemStorage_getTag(st, tagId) = <<>> THEN NotFound(st, "Tag not found")
        ELSE Response(st2, 200, MemStorage_getTagsForNote(st2, noteId))

DELETE_notes_tags(st, noteId, tagId) ==
    LET st2 == MemStorage_removeTagFromNote(st, noteId, tagId)
    IN  Response(st2, 200, MemStorage_getTagsForNote(st2, noteId))

----------------------------------------------------------------------------
(* Remote API client                                                       *)

\* What a request looks like to the client.  net = "down" is a transport failure:
\* the request never reaches the server and fetch rejects.
\*   [class |-> "network"]                      fetch rejected
\*   [class |-> "response", status, json, st]   a response arrived
fetch(net, st, response) ==
    IF net = "down" THEN [class |-> "network", st |-> st]
    ELSE [class |-> "response", status |-> response.status, json |-> response.json,
          st |-> response.st]

\* res.ok
Ok(res) == res.class = "response" /\ res.status >= 200 /\ res.status < 300

\* apiRequest of lib/queryClient: the request is sent with fetch and a failure
\* surfaces as an error carrying the status: it throws on a transport failure and
\* on a response that is not OK, and returns the response otherwise
apiRequest(net, st, response) ==
    LET res == fetch(net, st, response)
    IN  IF res.class = "network" THEN [threw |-> TRUE, error |-> "network", st |-> st]
        ELSE IF ~Ok(res) THEN [threw |-> TRUE, error |-> "rejected", status |-> res.status,
                               st |-> res.st]
        ELSE [threw |-> FALSE, json |-> res.json, st |-> res.st]

----------------------------------------------------------------------------
(* Cloud Backup client: the snapshot of a user's notes, mocked on          *)
(* localStorage under cloudinary_<userId>_notes                            *)

\* <<>> is null: nothing stored, or the read failed (cloudOk = FALSE) and was caught
getUserNotes(ls, cloudOk) == IF cloudOk THEN ls.cloudNotes ELSE <<>>

\* saveToCloudinary rethrows what localStorage.setItem throws
saveUserNotes(ls, notes, cloudOk) ==
    IF cloudOk THEN [threw |-> FALSE, ls |-> [ls EXCEPT !.cloudNotes = <<notes>>]]
    ELSE [threw |-> TRUE, ls |-> ls]

----------------------------------------------------------------------------
(* Sync Orchestrator: the query and mutation functions of the hooks.       *)
(* Each returns what the intent did:                                       *)
(*   ls, st     localStorage and the repository afterwards                 *)
(*   res        Return(value) or Throw(error), as seen by the caller       *)
(*   remote     "none" (no request), "ok", "network" or "rejected"         *)
(*   pulls      Cloud Backup reads, pushes: Cloud Backup writes attempted  *)

Outcome(ls, st, res, remote, pulls, pushes) ==
    [ls |-> ls, st |-> st, res |-> res, remote |-> remote, pulls |-> pulls, pushes |-> pushes]

\* how the hook sees a request that did not succeed
RemoteClass(r) == IF r.error = "network" THEN "network" ELSE "rejected"

RECURSIVE SaveNotes(_, _)
\* for (const note of notes) saveOfflineNote(note)
SaveNotes(ls, notes) ==
    IF notes = <<>> THEN ls ELSE SaveNotes(saveOfflineNote(ls, Head(notes)), Tail(notes))

RECURSIVE SaveTags(_, _)
SaveTags(ls, tags) ==
    IF tags = <<>> THEN ls ELSE SaveTags(saveOfflineTag(ls, Head(tags)), Tail(tags))

\* notes.filter(note => includeDeleted ? true : !note.isDeleted)
FilterDeleted(notes, includeDeleted) ==
    LET Listed(note) == includeDeleted \/ ~Truthy(note, "isDeleted")
    IN  SelectSeq(notes, Listed)

\* useNotes, offline branch
useNotes_offline(ls, includeDeleted) ==
    Return(FilterDeleted(getOfflineNotesWithTags(ls), includeDeleted))

\* useNotes, the catch block after a failed API call
useNotes_catch(ls, includeDeleted) ==
    Return(FilterDeleted(getOfflineNotesWithTags(ls), includeDeleted))

\* useNotes, the Cloudinary branch of a signed-in user whose snapshot exists
useNotes_cloud(ls, st, cloudNotes, includeDeleted, t) ==
    Outcome(setLastSyncTime(SaveNotes(ls, cloudNotes), t), st,
            Return(FilterDeleted(cloudNotes, includeDeleted)), "none", 1, 0)

\* useNotes after a successful API call, without the loop that stores the notes
useNotes_remote_unsaved(ls, st, uid, notes, pulls, cloudOk, t) ==
    LET push == saveUserNotes(ls, notes, cloudOk)
    IN  IF uid # <<>>
        THEN Outcome(IF push.threw THEN ls ELSE setLastSyncTime(push.ls, t),
                     st, Return(notes), "ok", pulls, 1)
        ELSE Outcome(ls, st, Return(notes), "ok", pulls, 0)

\* useNotes, the API call succeeded with the list notes
useNotes_remote(ls, st, uid, notes, pulls, cloudOk, t) ==
    LET saved == SaveNotes(ls, notes)
        push == saveUserNotes(saved, notes, cloudOk)
    IN  IF uid # <<>>
        THEN Outcome(IF push.threw THEN saved ELSE setLastSyncTime(push.ls, t),
                     st, Return(notes), "ok", pulls, 1)
        ELSE Outcome(saved, st, Return(notes), "ok", pulls, 0)

useNotes(ls, st, offline, uid, net, cloudOk, t, includeDeleted) ==
    LET cloudNotes == getUserNotes(ls, cloudOk)
        pulls == IF uid # <<>> THEN 1 ELSE 0
        res == fetch(net, st, GET_notes(st, includeDeleted))
    IN  IF offline THEN Outcome(ls, st, useNotes_offline(ls, includeDeleted), "none", 0, 0)
        ELSE IF uid # <<>> /\ cloudNotes # <<>>
        THEN useNotes_cloud(ls, st, cloudNotes[1], includeDeleted, t)
        ELSE IF res.class = "network"
        THEN Outcome(ls, st, useNotes_catch(ls, includeDeleted), "network", pulls, 0)
        ELSE IF ~Ok(res)
        THEN Outcome(ls, st, useNotes_catch(ls, includeDeleted), "rejected", pulls, 0)
        ELSE useNotes_remote(ls, res.st, uid, res.json, pulls, cloudOk, t)

\* The value of useNoteById is <<>> for null and <<note>> for a note.
useNoteById_offline(ls, id) == Return(getOfflineNoteWithTags(ls, id))

useNoteById_catch(ls, id) == Return(getOfflineNoteWithTags(ls, id))

useNoteById(ls, st, offline, net, id) ==
    LET res == fetch(net, st, GET_notes_id(st, id))
    IN  IF offline THEN Outcome(ls, st, useNoteById_offline(ls, id), "none", 0, 0)
        ELSE IF res.class = "network"
        THEN Outcome(ls, st, useNoteById_catch(ls, id), "network", 0, 0)
        ELSE IF res.status = 404 THEN Outcome(ls, res.st, Return(<<>>), "rejected", 0, 0)
        ELSE IF ~Ok(res) THEN Outcome(ls, res.st, useNoteById_catch(ls, id), "rejected", 0, 0)
        ELSE Outcome(saveOfflineNote(ls, res.json), res.st, Return(<<res.json>>), "ok", 0, 0)

\* value || fallback for a string field: undefined and "" are falsy
StrOr(o, k, fallback) == IF Has(o, k) /\ o[k] # <<>> THEN o[k] ELSE fallback

\* the offline note both local branches of useCreateNote build
OfflineNote(tempId, note, t) ==
    [id |-> tempId,
     title |-> StrOr(note, "title", Untitled),
     content |-> StrOr(note, "content", EmptyStr),
     isFavorite |-> Truthy(note, "isFavorite"),
     isDeleted |-> Truthy(note, "isDeleted"),
     createdAt |-> t,
     updatedAt |-> t]

useCreateNote_offline(ls, st, tempId, note, t) ==
    LET offlineNote == OfflineNote(tempId, note, t)
    IN  Outcome(saveOfflineNote(ls, offlineNote), st, Return(offlineNote), "none", 0, 0)

useCreateNote_catch(ls, st, tempId, note, t, remote) ==
    LET offlineNote == OfflineNote(tempId, note, t)
    IN  Outcome(saveOfflineNote(ls, offlineNote), st, Return(offlineNote), remote, 0, 0)

\* the snapshot push that follows a successful create or update of a signed-in user
SyncAfterWrite(ls, uid, cloudOk, t) ==
    LET push == saveUserNotes(ls, getOfflineNotesWithTags(ls), cloudOk)
    IN  IF uid = <<>> \/ push.threw THEN ls ELSE setLastSyncTime(push.ls, t)

useCreateNote_remote(ls, st, uid, createdNote, cloudOk, t) ==
    Outcome(SyncAfterWrite(saveOfflineNote(ls, createdNote), uid, cloudOk, t), st,
            Return(createdNote), "ok", 0, IF uid # <<>> THEN 1 ELSE 0)

useCreateNote(ls, st, offline, uid, net, cloudOk, t, tempId, note) ==
    LET r == apiRequest(net, st, POST_notes(st, note, t))
    IN  IF offline THEN useCreateNote_offline(ls, st, tempId, note, t)
        ELSE IF r.threw THEN useCreateNote_catch(ls, r.st, tempId, note, t, RemoteClass(r))
        ELSE useCreateNote_remote(ls, r.st, uid, r.json, cloudOk, t)

\* the local mutation without the updatedAt stamp: { ...offlineNote, ...change }
LocalMutation_unstamped(ls, st, id, change, t, remote, error) ==
    LET offlineNote == getOfflineNoteWithTags(ls, id)
        updatedNote == Spread(offlineNote[1], change)
    IN  IF offlineNote = <<>> THEN Outcome(ls, st, Throw(error), remote, 0, 0)
        ELSE Outcome(saveOfflineNote(ls, updatedNote), st, Return(updatedNote), remote, 0, 0)

\* { ...offlineNote, ...change, updatedAt: new Date() } saved and returned, or the
\* error thrown when the note is not in the offline list
LocalMutation(ls, st, id, change, t, remote, error) ==
    LET offlineNote == getOfflineNoteWithTags(ls, id)
        updatedNote == Spread(Spread(offlineNote[1], change), [updatedAt |-> t])
    IN  IF offlineNote = <<>> THEN Outcome(ls, st, Throw(error), remote, 0, 0)
        ELSE Outcome(saveOfflineNote(ls, updatedNote), st, Return(updatedNote), remote, 0, 0)

useUpdateNote_offline(ls, st, id, note, t) ==
    LocalMutation(ls, st, id, note, t, "none", "Note not found in offline storage")

useUpdateNote_catch(ls, st, id, note, t, remote) ==
    LocalMutation(ls, st, id, note, t, remote,
                  "Failed to update note and note not found in offline storage")

\* useUpdateNote after a successful API call, without the try/catch around the
\* snapshot push: the error of a failed push is raised
useUpdateNote_remote_unguarded(ls, st, uid, updatedNote, cloudOk, t) ==
    LET saved == saveOfflineNote(ls, updatedNote)
    IN  IF uid # <<>> /\ ~cloudOk THEN Outcome(saved, st, Throw("cloudError"), "ok", 0, 1)
        ELSE Outcome(SyncAfterWrite(saved, uid, cloudOk, t), st, Return(updatedNote), "ok", 0,
                     IF uid # <<>> THEN 1 ELSE 0)

useUpdateNote_remote(ls, st, uid, updatedNote, cloudOk, t) ==
    Outcome(SyncAfterWrite(saveOfflineNote(ls, updatedNote), uid, cloudOk, t), st,
            Return(updatedNote), "ok", 0, IF uid # <<>> THEN 1 ELSE 0)

\* useUpdateNote without the isOffline() check: the API is always tried first
useUpdateNote_online(ls, st, offline, uid, net, cloudOk, t, id, note) ==
    LET r == apiRequest(net, st, PUT_notes_id(st, id, note, t))
    IN  IF r.threw THEN useUpdateNote_catch(ls, r.st, id, note, t, RemoteClass(r))
        ELSE useUpdateNote_remote(ls, r.st, uid, r.json, cloudOk, t)

useUpdateNote(ls, st, offline, uid, net, cloudOk, t, id, note) ==
    LET r == apiRequest(net, st, PUT_notes_id(st, id, note, t))
    IN  IF offline THEN useUpdateNote_offline(ls, st, id, note, t)
        ELSE IF r.threw THEN useUpdateNote_catch(ls, r.st, id, note, t, RemoteClass(r))
        ELSE useUpdateNote_remote(ls, r.st, uid, r.json, cloudOk, t)

useDeleteNote_offline(ls, st, id, t) ==
    LocalMutation(ls, st, id, [isDeleted |-> TRUE], t, "none",
                  "Note not found in offline storage")

useDeleteNote_catch(ls, st, id, t, remote) ==
    LocalMutation(ls, st, id, [isDeleted |-> TRUE], t, remote,
                  "Failed to delete note and note not found in offline storage")

\* deletedNote is the JSON body of the DELETE response
useDeleteNote_remote(ls, st, deletedNote, t) ==
    Outcome(saveOfflineNote(ls, Spread(deletedNote, [isDeleted |-> TRUE, updatedAt |-> t])),
            st, Return(deletedNote), "ok", 0, 0)

useDeleteNote(ls, st, offline, net, t, id) ==
    LET r == apiRequest(net, st, DELETE_notes_id(st, id, t))
    IN  IF offline THEN useDeleteNote_offline(ls, st, id, t)
        ELSE IF r.threw THEN useDeleteNote_catch(ls, r.st, id, t, RemoteClass(r))
        ELSE useDeleteNote_remote(ls, r.st, r.json, t)

useRestoreNote_offline(ls, st, id, t) ==
    LocalMutation(ls, st, id, [isDeleted |-> FALSE], t, "none",
                  "Note not found in offline storage")

useRestoreNote_catch(ls, st, id, t, remote) ==
    LocalMutation(ls, st, id, [isDeleted |-> FALSE], t, remote,
                  "Failed to restore note and note not found in offline storage")

useRestoreNote_remote(ls, st, restoredNote, t) ==
    Outcome(saveOfflineNote(ls, Spread(restoredNote, [isDeleted |-> FALSE, updatedAt |-> t])),
            st, Return(restoredNote), "ok", 0, 0)

useRestoreNote(ls, st, offline, net, t, id) ==
    LET r == apiRequest(net, st, POST_notes_id_restore(st, id, t))
    IN  IF offline THEN useRestoreNote_offline(ls, st, id, t)
        ELSE IF r.threw THEN useRestoreNote_catch(ls, r.st, id, t, RemoteClass(r))
        ELSE useRestoreNote_remote(ls, r.st, r.json, t)

\* isFavorite: !offlineNote.isFavorite
ToggleLocal(ls, st, id, t, remote, error) ==
    LET offlineNote == getOfflineNoteWithTags(ls, id)
    IN  LocalMutation(ls, st, id,
                      IF offlineNote = <<>> THEN <<>>
                      ELSE [isFavorite |-> ~Truthy(offlineNote[1], "isFavorite")],
                      t, remote, error)

useToggleFavorite_offline(ls, st, id, t) ==
    ToggleLocal(ls, st, id, t, "none", "Note not found in offline storage")

useToggleFavorite_catch(ls, st, id, t, remote) ==
    ToggleLocal(ls, st, id, t, remote,
                "Failed to toggle favorite and note not found in offline storage")

useToggleFavorite_remote(ls, st, updatedNote) ==
    Outcome(saveOfflineNote(ls, updatedNote), st, Return(updatedNote), "ok", 0, 0)

useToggleFavorite(ls, st, offline, net, t, id) ==
    LET r == apiRequest(net, st, POST_notes_id_toggle_favorite(st, id, t))
    IN  IF offline THEN useToggleFavorite_offline(ls, st, id, t)
        ELSE IF r.threw THEN useToggleFavorite_catch(ls, r.st, id, t, RemoteClass(r))
        ELSE useToggleFavorite_remote(ls, r.st, r.json)

\* useSearchNotes, offline branch: getOfflineNotesWithTags().filter(...)
useSearchNotes_offline(ls, query) ==
    LET notesWithTags == getOfflineNotesWithTags(ls)
        Match(note) == MatchesQuery(note, query)
    IN  IF \E note \in Range(notesWithTags) : MatchThrows(note, query)
        THEN Throw("TypeError")
        ELSE Return(SelectSeq(notesWithTags, Match))

\* useSearchNotes, the catch block: the same filter
useSearchNotes_catch(ls, query) ==
    LET notesWithTags == getOfflineNotesWithTags(ls)
        Match(note) == MatchesQuery(note, query)
    IN  IF \E note \in Range(notesWithTags) : MatchThrows(note, query)
        THEN Throw("TypeError")
        ELSE Return(SelectSeq(notesWithTags, Match))

useSearchNotes(ls, st, offline, net, query) ==
    LET res == fetch(net, st, GET_notes_search(st, query))
    IN  IF offline THEN Outcome(ls, st, useSearchNotes_offline(ls, query), "none", 0, 0)
        ELSE IF res.class = "network"
        THEN Outcome(ls, st, useSearchNotes_catch(ls, query), "network", 0, 0)
        ELSE IF ~Ok(res) THEN Outcome(ls, res.st, useSearchNotes_catch(ls, query), "rejected", 0, 0)
        ELSE Outcome(ls, res.st, Return(res.json), "ok", 0, 0)

\* offlineTags.find(t => t.id === id): <<>> when absent
FindOfflineTag(ls, id) == LET Is(t) == IdIs(t, id) IN SelectSeq(getOfflineTags(ls), Is)

useTags_offline(ls) == Return(getOfflineTags(ls))

useTags_catch(ls) == Return(getOfflineTags(ls))

useTags(ls, st, offline, net) ==
    LET res == fetch(net, st, GET_tags(st))
    IN  IF offline THEN Outcome(ls, st, useTags_offline(ls), "none", 0, 0)
        ELSE IF res.class = "network" THEN Outcome(ls, st, useTags_catch(ls), "network", 0, 0)
        ELSE IF ~Ok(res) THEN Outcome(ls, res.st, useTags_catch(ls), "rejected", 0, 0)
        ELSE Outcome(SaveTags(ls, res.json), res.st, Return(res.json), "ok", 0, 0)

OfflineTag(tempId, tag) ==
    [id |-> tempId,
     name |-> StrOr(tag, "name", UntitledTag),
     color |-> IF Has(tag, "color") /\ tag.color # "" THEN tag.color ELSE "#6e56cf"]

useCreateTag_offline(ls, st, tempId, tag) ==
    Outcome(saveOfflineTag(ls, OfflineTag(tempId, tag)), st, Return(OfflineTag(tempId, tag)),
            "none", 0, 0)

useCreateTag_catch(ls, st, tempId, tag, remote) ==
    Outcome(saveOfflineTag(ls, OfflineTag(tempId, tag)), st, Return(OfflineTag(tempId, tag)),
            remote, 0, 0)

useCreateTag(ls, st, offline, net, tempId, tag) ==
    LET r == apiRequest(net, st, POST_tags(st, tag))
    IN  IF offline THEN useCreateTag_offline(ls, st, tempId, tag)
        ELSE IF r.threw THEN useCreateTag_catch(ls, r.st, tempId, tag, RemoteClass(r))
        ELSE Outcome(saveOfflineTag(ls, r.json), r.st, Return(r.json), "ok", 0, 0)

UpdateTagLocal(ls, st, id, tag, remote, error) ==
    LET existingTag == FindOfflineTag(ls, id)
        updatedTag == Spread(existingTag[1], tag)
    IN  IF existingTag = <<>> THEN Outcome(ls, st, Throw(error), remote, 0, 0)
        ELSE Outcome(saveOfflineTag(ls, updatedTag), st, Return(updatedTag), remote, 0, 0)

useUpdateTag_offline(ls, st, id, tag) ==
    UpdateTagLocal(ls, st, id, tag, "none", "Tag not found in offline storage")

useUpdateTag_catch(ls, st, id, tag, remote) ==
    UpdateTagLocal(ls, st, id, tag, remote,
                   "Failed to update tag and tag not found in offline storage")

useUpdateTag(ls, st, offline, net, id, tag) ==
    LET r == apiRequest(net, st, PUT_tags_id(st, id, tag))
    IN  IF offline THEN useUpdateTag_offline(ls, st, id, tag)
        ELSE IF r.threw THEN useUpdateTag_catch(ls, r.st, id, tag, RemoteClass(r))
        ELSE Outcome(saveOfflineTag(ls, r.json), r.st, Return(r.json), "ok", 0, 0)

DeleteTagLocal(ls, st, id, remote, error) ==
    IF FindOfflineTag(ls, id) = <<>> THEN Outcome(ls, st, Throw(error), remote, 0, 0)
    ELSE Outcome(deleteOfflineTag(ls, id), st, Return([success |-> TRUE]), remote, 0, 0)

\* the offline branch of useDeleteTag without the lookup of the tag
useDeleteTag_offline_unchecked(ls, st, id) ==
    Outcome(deleteOfflineTag(ls, id), st, Return([success |-> TRUE]), "none", 0, 0)

useDeleteTag_offline(ls, st, id) ==
    DeleteTagLocal(ls, st, id, "none", "Tag not found in offline storage")

useDeleteTag_catch(ls, st, id, remote) ==
    DeleteTagLocal(ls, st, id, remote,
                   "Failed to delete tag and tag not found in offline storage")

useDeleteTag(ls, st, offline, net, id) ==
    LET r == apiRequest(net, st, DELETE_tags_id(st, id))
    IN  IF offline THEN useDeleteTag_offline(ls, st, id)
        ELSE IF r.threw THEN useDeleteTag_catch(ls, r.st, id, RemoteClass(r))
        ELSE Outcome(deleteOfflineTag(ls, id), r.st, Return(r.json), "ok", 0, 0)

\* the checks and the relation change both local branches of the two relation hooks make
RelationLocal(ls, st, noteId, tagId, changed, remote) ==
    IF getOfflineNoteWithTags(ls, noteId) = <<>>
    THEN Outcome(ls, st, Throw("Note not found in offline storage"), remote, 0, 0)
    ELSE IF FindOfflineTag(ls, tagId) = <<>>
    THEN Outcome(ls, st, Throw("Tag not found in offline storage"), remote, 0, 0)
    ELSE Outcome(changed, st, Return([success |-> TRUE]), remote, 0, 0)

useAddTagToNote_offline(ls, st, noteId, tagId) ==
    RelationLocal(ls, st, noteId, tagId, addOfflineTagToNote(ls, noteId, tagId), "none")

useAddTagToNote_catch(ls, st, noteId, tagId, remote) ==
    RelationLocal(ls, st, noteId, tagId, addOfflineTagToNote(ls, noteId, tagId), remote)

useAddTagToNote(ls, st, offline, net, noteId, tagId) ==
    LET r == apiRequest(net, st, POST_notes_tags(st, noteId, tagId))
    IN  IF offline THEN useAddTagToNote_offline(ls, st, noteId, tagId)
        ELSE IF r.threw THEN useAddTagToNote_catch(ls, r.st, noteId, tagId, RemoteClass(r))
        ELSE Outcome(addOfflineTagToNote(ls, noteId, tagId), r.st, Return(r.json), "ok", 0, 0)

useRemoveTagFromNote_offline(ls, st, noteId, tagId) ==
    RelationLocal(ls, st, noteId, tagId, removeOfflineTagFromNote(ls, noteId, tagId), "none")

useRemoveTagFromNote_catch(ls, st, noteId, tagId, remote) ==
    RelationLocal(ls, st, noteId, tagId, removeOfflineTagFromNote(ls, noteId, tagId), remote)

useRemoveTagFromNote(ls, st, offline, net, noteId, tagId) ==
    LET r == apiRequest(net, st, DELETE_notes_tags(st, noteId, tagId))
    IN  IF offline THEN useRemoveTagFromNote_offline(ls, st, noteId, tagId)
        ELSE IF r.threw THEN useRemoveTagFromNote_catch(ls, r.st, noteId, tagId, RemoteClass(r))
        ELSE Outcome(removeOfflineTagFromNote(ls, noteId, tagId), r.st, Return(r.json),
                     "ok", 0, 0)

----------------------------------------------------------------------------
(* Export: rich text and its conversions.  A content string is a sequence  *)
(* of the lexical units the patterns of the converters tell apart: a tag,  *)
(* an entity, the replacement pattern "$&", "$1", or one character.        *)

\* position of the first tok in s at or after position i, 0 when there is none
IndexFrom(s, tok, i) ==
    IF \E j \in i..Len(s) : s[j] = tok
    THEN CHOOSE j \in i..Len(s) : s[j] = tok /\ \A k \in i..(j - 1) : s[k] # tok
    ELSE 0

\* /<open[^>]*>([\s\S]*?)<\/close>/.exec(s): <<open, close>> positions of the
\* leftmost match, the first closing tag after the first opening tag that has
\* one; <<>> for null
ExecElement(s, open, close) ==
    LET openAt == IndexFrom(s, open, 1)
        closeAt == IF openAt = 0 THEN 0 ELSE IndexFrom(s, close, openAt + 1)
    IN  IF closeAt = 0 THEN <<>> ELSE <<openAt, closeAt>>

\* how many matches of the element pattern s holds, one after the other
RECURSIVE Matches(_, _, _)
Matches(s, open, close) ==
    LET m == ExecElement(s, open, close)
    IN  IF m = <<>> THEN 0 ELSE 1 + Matches(SubSeq(s, m[2] + 1, Len(s)), open, close)

\* the replacement text of String.prototype.replace with a string pattern:
\* "$&" stands for the matched substring, "$1" for itself as there is no group
RECURSIVE GetSubstitution(_, _)
GetSubstitution(replacement, matched) ==
    IF replacement = <<>> THEN <<>>
    ELSE (IF Head(replacement) = "$&" THEN matched ELSE <<Head(replacement)>>)
             \o GetSubstitution(Tail(replacement), matched)

\* result.replace(match[0], replacement): the first occurrence of the matched
\* text, which is the match itself, gives way to the expanded replacement
ReplaceMatch(result, m, replacement) ==
    SubSeq(result, 1, m[1] - 1)
        \o GetSubstitution(replacement, SubSeq(result, m[1], m[2]))
        \o SubSeq(result, m[2] + 1, Len(result))

\* the text between the tags of match m
Group1(s, m) == SubSeq(s, m[1] + 1, m[2] - 1)

\* list.replace(/<li[^>]*>([\s\S]*?)<\/li>/g, '- $1\n')
RECURSIVE LiToBullets(_)
LiToBullets(list) ==
    LET m == ExecElement(list, "<li>", "</li>")
    IN  IF m = <<>> THEN list
        ELSE SubSeq(list, 1, m[1] - 1) \o <<"-", " ">> \o Group1(list, m) \o <<"\n">>
                 \o LiToBullets(SubSeq(list, m[2] + 1, Len(list)))

\* list.replace(/<li[^>]*>([\s\S]*?)<\/li>/g, () => `${index++}. $1\n`): what a
\* replacer function returns is inserted as it is, "$1" included
RECURSIVE LiToNumbers(_, _)
LiToNumbers(list, index) ==
    LET m == ExecElement(list, "<li>", "</li>")
    IN  IF m = <<>> THEN list
        ELSE SubSeq(list, 1, m[1] - 1) \o <<ToString(index), ".", " ", "$1", "\n">>
                 \o LiToNumbers(SubSeq(list, m[2] + 1, Len(list)), index + 1)

\* s.replace(/<open>(.*?)<\/close>/g, pre + '$1' + post): "." stops at a line end
RECURSIVE ReplaceInline(_, _, _, _, _)
ReplaceInline(s, open, close, pre, post) ==
    LET starts == {i \in 1..Len(s) :
                     /\ s[i] = open
                     /\ IndexFrom(s, close, i + 1) > 0
                     /\ \A k \in (i + 1)..(IndexFrom(s, close, i + 1) - 1) : s[k] # "\n"}
        openAt == CHOOSE i \in starts : \A k \in starts : i <= k
        closeAt == IndexFrom(s, close, openAt + 1)
    IN  IF starts = {} THEN s
        ELSE SubSeq(s, 1, openAt - 1) \o pre \o SubSeq(s, openAt + 1, closeAt - 1) \o post
                 \o ReplaceInline(SubSeq(s, closeAt + 1, Len(s)), open, close, pre, post)

\* s.replace(/tok/g, by) for a pattern that matches one unit
RECURSIVE ReplaceUnits(_, _, _)
ReplaceUnits(s, toks, by) ==
    IF s = <<>> THEN <<>>
    ELSE (IF Head(s) \in toks THEN by ELSE <<Head(s)>>) \o ReplaceUnits(Tail(s), toks, by)

\* text.replace(/\n\n\n+/g, '\n\n')
RECURSIVE cleanNewlines(_)
cleanNewlines(text) ==
    IF Len(text) >= 3 /\ text[1] = "\n" /\ text[2] = "\n" /\ text[3] = "\n"
    THEN cleanNewlines(Tail(text))
    ELSE IF text = <<>> THEN <<>>
    ELSE <<Head(text)>> \o cleanNewlines(Tail(text))

WhiteSpace == {" ", "\n"}

\* the back quote of inline code and the three back quotes that fence a code
\* block, spelled out
BackQuote == "(backquote)"

Fence == "(backquote)(backquote)(backquote)"

\* String.prototype.trim
RECURSIVE trim(_)
trim(s) ==
    IF s = <<>> THEN s
    ELSE IF Head(s) \in WhiteSpace THEN trim(Tail(s))
    ELSE IF s[Len(s)] \in WhiteSpace THEN trim(SubSeq(s, 1, Len(s) - 1))
    ELSE s

\* the tags /<\/?(div|span|p)([^>]*)>/ matches: a pre tag is a p followed by
\* two characters that are not ">"
LineTags == {"<p>", "</p>", "<div>", "</div>", "<span>", "</span>", "<pre>", "</pre>"}

\* htmlToMarkdown, the chain of replaces before the loops: the tags of LineTags
\* become line ends, headings and inline formats their markdown marks (links
\* and images carry attributes and are not among the units of the model)
MarkInline(html) ==
    LET lines == ReplaceUnits(html, LineTags, <<"\n">>)
        h1 == ReplaceInline(lines, "<h1>", "</h1>", <<"#", " ">>, <<"\n">>)
        h2 == ReplaceInline(h1, "<h2>", "</h2>", <<"#", "#", " ">>, <<"\n">>)
        h3 == ReplaceInline(h2, "<h3>", "</h3>", <<"#", "#", "#", " ">>, <<"\n">>)
        strong == ReplaceInline(h3, "<strong>", "</strong>", <<"*", "*">>, <<"*", "*">>)
        b == ReplaceInline(strong, "<b>", "</b>", <<"*", "*">>, <<"*", "*">>)
        em == ReplaceInline(b, "<em>", "</em>", <<"*">>, <<"*">>)
        italic == ReplaceInline(em, "<i>", "</i>", <<"*">>, <<"*">>)
        u == ReplaceInline(italic, "<u>", "</u>", <<"_">>, <<"_">>)
        strike == ReplaceInline(u, "<s>", "</s>", <<"~", "~">>, <<"~", "~">>)
    IN  ReplaceInline(strike, "<code>", "</code>", <<BackQuote>>, <<BackQuote>>)

\* one turn of the while loop of convertUl, for a match m
convertUl(result, m) == ReplaceMatch(result, m, LiToBullets(Group1(result, m)))

\* one turn of the while loop of convertOl
convertOl(result, m) == ReplaceMatch(result, m, LiToNumbers(Group1(result, m), 1))

\* /<pre[^>]*><code[^>]*>([\s\S]*?)<\/code><\/pre>/.exec(s): the first pre tag
\* followed at once by a code tag, up to the first code end followed by a pre end
ExecCode(s) ==
    LET ends(i) == {j \in (i + 2)..(Len(s) - 1) : s[j] = "</code>" /\ s[j + 1] = "</pre>"}
        starts == {i \in 1..(Len(s) - 1) : s[i] = "<pre>" /\ s[i + 1] = "<code>" /\ ends(i) # {}}
        openAt == CHOOSE i \in starts : \A k \in starts : i <= k
        closeAt == CHOOSE j \in ends(openAt) : \A k \in ends(openAt) : j <= k
    IN  IF starts = {} THEN <<>> ELSE <<openAt, closeAt + 1>>

\* one turn of the while loop of convertCodeBlocks
convertCodeBlocks(result, m) ==
    ReplaceMatch(result, m,
                 <<Fence, "\n">> \o SubSeq(result, m[1] + 2, m[2] - 2) \o <<"\n", Fence>>)

\* one turn of the while loop of convertBlockquotes
convertBlockquotes(result, m) == ReplaceMatch(result, m, <<">", " ">> \o Group1(result, m))

\* a conversion that ends without the final trim
Finish_untrimmed(markdown) ==
    LET lt == ReplaceUnits(cleanNewlines(markdown), {"&lt;"}, <<"<">>)
        gt == ReplaceUnits(lt, {"&gt;"}, <<">">>)
        quot == ReplaceUnits(gt, {"&quot;"}, <<"\"">>)
    IN  ReplaceUnits(quot, {"&amp;"}, <<"&">>)

\* htmlToMarkdown after the loops: newlines cleaned, entities decoded, trimmed
Finish(markdown) ==
    LET lt == ReplaceUnits(cleanNewlines(markdown), {"&lt;"}, <<"<">>)
        gt == ReplaceUnits(lt, {"&gt;"}, <<">">>)
        quot == ReplaceUnits(gt, {"&quot;"}, <<"\"">>)
    IN  trim(ReplaceUnits(quot, {"&amp;"}, <<"&">>))

\* the tags among the units of a content string
Tags == {"<p>", "</p>", "<div>", "</div>", "<span>", "</span>", "<ul>", "</ul>", "<ol>",
         "</ol>", "<li>", "</li>", "<pre>", "</pre>", "<code>", "</code>", "<blockquote>",
         "</blockquote>", "<h1>", "</h1>", "<strong>", "</strong>", "<em>", "</em>"}

\* new DOMParser().parseFromString(html, 'text/html').body.textContent || '':
\* the text without the tags, entities decoded
stripHtml(html) ==
    LET NotTag(unit) == unit \notin Tags
        text == SelectSeq(html, NotTag)
        lt == ReplaceUnits(text, {"&lt;"}, <<"<">>)
        gt == ReplaceUnits(lt, {"&gt;"}, <<">">>)
        quot == ReplaceUnits(gt, {"&quot;"}, <<"\"">>)
    IN  ReplaceUnits(quot, {"&amp;"}, <<"&">>)

\* the markdown conversion of the offline branch of useExportNote: a chain of
\* global replaces whose "." stops at a line end (the link pattern needs an
\* attribute, which no unit of the model carries)
offlineMarkdown(content) ==
    LET h1 == ReplaceInline(content, "<h1>", "</h1>", <<"#", " ">>, <<"\n", "\n">>)
        h2 == ReplaceInline(h1, "<h2>", "</h2>", <<"#", "#", " ">>, <<"\n", "\n">>)
        h3 == ReplaceInline(h2, "<h3>", "</h3>", <<"#", "#", "#", " ">>, <<"\n", "\n">>)
        para == ReplaceInline(h3, "<p>", "</p>", <<>>, <<"\n", "\n">>)
        strong == ReplaceInline(para, "<strong>", "</strong>", <<"*", "*">>, <<"*", "*">>)
        em == ReplaceInline(strong, "<em>", "</em>", <<"*">>, <<"*">>)
        ul == ReplaceInline(em, "<ul>", "</ul>", <<>>, <<"\n">>)
    IN  ReplaceInline(ul, "<li>", "</li>", <<"-", " ">>, <<"\n">>)

\* JSON.stringify(value, null, space): the text is told by the value and by the
\* indentation; res.json(note) writes it with no indentation
Stringify(value, space) == [json |-> value, space |-> space]

\* the content the offline branch of useExportNote hands to the download
useExportNote_offline(ls, st, id, format) ==
    LET offlineNote == getOfflineNoteWithTags(ls, id)
        content == CASE format = "text" -> stripHtml(offlineNote[1].content)
                     [] format = "markdown" -> offlineMarkdown(offlineNote[1].content)
                     [] format = "json" -> Stringify(offlineNote[1], 2)
    IN  IF offlineNote = <<>>
        THEN Outcome(ls, st, Throw("Note not found in offline storage"), "none", 0, 0)
        ELSE Outcome(ls, st, Return(content), "none", 0, 0)

\* res.send(`${note.title}\n\n${note.content}`)
ExportText(note) == note.title \o <<"\n", "\n">> \o note.content

\* res.send(`# ${note.title}\n\n${markdown}`)
ExportMarkdown(title, markdown) == <<"#", " ">> \o title \o <<"\n", "\n">> \o markdown

\* GET /notes/:id/export for the formats that need no conversion; the markdown
\* format is answered by the steps of the conversion
GET_notes_id_export(st, id, format) ==
    LET note == MemStorage_getNoteWithTags(st, id)
    IN  IF note = <<>> THEN NotFound(st, "Note not found")
        ELSE IF format = "text" THEN Response(st, 200, ExportText(note[1]))
        ELSE Response(st, 200, Stringify(note[1], 0))

\* useExportNote for a request that is answered without a conversion: offline
\* the content is rendered from the Local Store, online the browser downloads
\* what the route sends, or nothing when the request fails
useExportNote(ls, st, offline, net, id, format) ==
    LET res == fetch(net, st, GET_notes_id_export(st, id, format))
    IN  IF offline THEN useExportNote_offline(ls, st, id, format)
        ELSE IF res.class = "network"
        THEN Outcome(ls, st, Throw("download failed"), "network", 0, 0)
        ELSE IF ~Ok(res) THEN Outcome(ls, res.st, Throw("download failed"), "rejected", 0, 0)
        ELSE Outcome(ls, res.st, Return(res.json), "ok", 0, 0)

----------------------------------------------------------------------------
(* The state machine: one step is one intent run to completion, or a       *)
(* change of the environment (connectivity, sign-in, time).                *)

\* -Math.floor(Math.random() * 10000000): a value of -9999999..0 (-0 is stored as 0)
TempIds == (0 - MaxTemp)..0

NoteIds == (0 - MaxTemp)..MaxNotes

\* two default tags, the tags the client may create, and placeholder tags
TagIds == 1..2 \cup 6..(5 + MaxTags) \cup ((0 - MaxTemp)..(0 - 1))

\* createNote({ title: "Untitled", content: "" }) of Header, Sidebar and NotesList
NewNotes == {[title |-> Untitled, content |-> EmptyStr]}

\* updateNote({ id, note: { title } }) of TitleEditor
NoteUpdates == {[title |-> Trip]}

NewTags == {[name |-> <<"H", "o", "m", "e">>, color |-> "#3B82F6"]}

TagUpdates == {[name |-> Trip]}

\* handleSearch of Header returns early on a blank query
Queries == {<<"t", "r", "i">>, <<"h", "o", "m">>}

\* what the transport does with a request; a browser that reports offline has none
Nets == IF online THEN {"up", "down"} ELSE {"down"}

\* whether the Cloud Backup calls of a signed-in user succeed
CloudOks == IF online /\ userId # <<>> THEN BOOLEAN ELSE {TRUE}

Uid == <<"u1">>

\* last when no intent has just completed
NoIntent == [op |-> "none", args |-> <<>>, offline |-> FALSE, net |-> "up", cloudOk |-> TRUE,
             remote |-> "none", pulls |-> 0, pushes |-> 0, res |-> Return(<<>>),
             toast |-> "none", before |-> EmptyStorage,
             off |-> Outcome(EmptyStorage, MemStorage_new, Return(<<>>), "none", 0, 0)]

NoteWrites == {"useUpdateNote", "useDeleteNote", "useRestoreNote", "useToggleFavorite"}

TagWrites == {"useCreateTag", "useUpdateTag", "useDeleteTag", "useAddTagToNote",
              "useRemoveTagFromNote"}

Reads == {"useNotes", "useNoteById", "useTags", "useSearchNotes"}

\* the field values a local-only note mutation sets (updatedAt aside)
ChangeOf(op, a, out) ==
    CASE op = "useUpdateNote" -> a.note
      [] op = "useDeleteNote" -> [isDeleted |-> TRUE]
      [] op = "useRestoreNote" -> [isDeleted |-> FALSE]
      [] op = "useToggleFavorite" -> [isFavorite |-> out.res.value.isFavorite]

\* history of local-only note mutations: a mutation applied only locally is
\* remembered, one the server accepted supersedes what was remembered for the note
DirtyAfter(op, a, out) ==
    IF op \notin NoteWrites THEN dirty
    ELSE IF out.remote = "ok" THEN Pick(dirty, DOMAIN dirty \ {a.id})
    ELSE IF out.res.threw THEN dirty
    ELSE Spread(dirty, [i \in {a.id} |->
                          Spread(IF a.id \in DOMAIN dirty THEN dirty[a.id] ELSE <<>>,
                                 ChangeOf(op, a, out))])

\* pending and reconciled after a create intent; retryOf is <<>> for a first
\* issue and <<p>> when the create intent of placeholder p is issued again
PendingAfter(out, retryOf) ==
    IF out.remote = "ok" THEN pending \ Range(retryOf)
    ELSE pending \cup {out.res.value.id}

ReconciledAfter(out, retryOf) ==
    IF out.remote = "ok" /\ retryOf # <<>>
    THEN reconciled \cup {[p |-> retryOf[1], s |-> out.res.value.id]}
    ELSE reconciled

\* the note of the given id as the store that carried out an intent holds it: the
\* repository when the server accepted the request, the Local Store otherwise
NoteView(ls, st, remote, id) ==
    IF remote = "ok" THEN MemStorage_getNoteWithTags(st, id)
    ELSE getOfflineNoteWithTags(ls, id)

\* history of the last soft delete: the note as it was before a delete intent
\* that has just completed, kept while the restore intent that follows it
\* completes in the same store; any other completed intent forgets it
TrashAfter(op, a, out) ==
    IF op = "useDeleteNote" /\ ~out.res.threw
    THEN <<[id |-> a.id, remote |-> out.remote, restored |-> FALSE,
            note |-> NoteView(localStorage, server, out.remote, a.id)]>>
    ELSE IF /\ op = "useRestoreNote" /\ ~out.res.threw
            /\ trash # <<>> /\ ~trash[1].restored /\ trash[1].id = a.id
            /\ (trash[1].remote = "ok" <=> out.remote = "ok")
    THEN <<[trash[1] EXCEPT !.restored = TRUE]>>
    ELSE <<>>

\* What the toast of onSuccess / onError tells the user: "offline" when its text
\* speaks of offline mode or of a local save, "error" for a destructive toast,
\* "live" otherwise.  Every hook but useCreateNote picks the text of onSuccess by
\* isOffline(); useCreateNote picks the text of onError by it.
toastOf(op, threw, offline) ==
    IF op \in Reads THEN "none"
    ELSE IF op = "useExportNote"
    THEN (IF ~offline THEN "live" ELSE IF threw THEN "error" ELSE "offline")
    ELSE IF threw THEN (IF op = "useCreateNote" /\ offline THEN "offline" ELSE "error")
    ELSE IF op = "useCreateNote" THEN "live"
    ELSE IF offline THEN "offline" ELSE "live"

\* the export route is converting nothing
NoConversion == [stage |-> "idle", args |-> <<>>, title |-> <<>>, markdown |-> <<>>, turns |-> 0]

\* no TitleEditor is mounted
Unmounted ==
    [mounted |-> FALSE, id |-> 0, initialTitle |-> <<>>, title |-> <<>>, render |-> 0,
     timers |-> {}, clock |-> 0, stale |-> FALSE, lastEdit |-> 0, burst |-> <<>>, sent |-> <<>>]

\* window has no listener: no call of setupConnectivityListeners was made, no
\* cleanup has run, the last connectivity event invoked nothing; seen is the set
\* of cleanups that had run when that event came
NoListeners == [window |-> {}, registered |-> {}, cleaned |-> {}, invoked |-> {}, seen |-> {}]

\* the browser dispatches the event of the given type on window: the callbacks
\* of its listeners run
Dispatch(type) ==
    [listeners EXCEPT !.invoked = {l.callback : l \in {x \in listeners.window : x.type = type}},
                      !.seen = listeners.cleaned]

\* no intent is running and the behaviour may issue one more
Ready == last.op = "none" /\ left > 0

\* the intent op(a) ran to completion with outcome out; off is the outcome the
\* same intent has from the same state when the client is offline
Complete(op, a, net, cloudOk, out, off) ==
    /\ left' = left - 1
    /\ localStorage' = out.ls
    /\ server' = out.st
    /\ last' = [op |-> op, args |-> a, offline |-> ~online, net |-> net, cloudOk |-> cloudOk,
                remote |-> out.remote, pulls |-> out.pulls, pushes |-> out.pushes,
                res |-> out.res, toast |-> toastOf(op, out.res.threw, ~online),
                before |-> localStorage, off |-> off]
    /\ dirty' = DirtyAfter(op, a, out)
    /\ now' = now + 1
    /\ trash' = TrashAfter(op, a, out)
    /\ UNCHANGED <<online, userId, flight, listeners>>

Intent(op, a, net, cloudOk, out, off) ==
    /\ Complete(op, a, net, cloudOk, out, off)
    /\ UNCHANGED <<pending, reconciled, conv, editor>>

\* the server is asked for at most MaxNotes notes and MaxTags tags
MayCreateNote(net) == ~online \/ net = "down" \/ server.noteCurrentId <= MaxNotes

MayCreateTag(net) == ~online \/ net = "down" \/ server.tagCurrentId <= 5 + MaxTags

\* a fresh browser profile and a freshly started server; n intents will be issued
Start(n) ==
    /\ localStorage = EmptyStorage
    /\ server = MemStorage_new
    /\ online = TRUE
    /\ userId = <<>>
    /\ now = 1
    /\ last = NoIntent
    /\ left = n
    /\ pending = {}
    /\ reconciled = {}
    /\ dirty = <<>>
    /\ flight = {}
    /\ trash = <<>>
    /\ conv = NoConversion
    /\ editor = Unmounted
    /\ listeners = NoListeners

Init == Start(MaxIntents)

InitNotes == Start(MaxDeep)

\* onSuccess / onError of the hook: the caller has seen the result
Settle ==
    /\ last.op # "none"
    /\ last' = NoIntent
    /\ UNCHANGED <<localStorage, server, online, userId, now, left, pending, reconciled, dirty,
                   flight, trash, conv, editor,
                   listeners>>

Environment(on, uid) ==
    /\ last.op = "none"
    /\ online' = on
    /\ userId' = uid
    /\ listeners' = IF on = online THEN listeners
                     ELSE Dispatch(IF on THEN "online" ELSE "offline")
    /\ UNCHANGED <<localStorage, server, now, last, left, pending, reconciled, dirty, flight,
                   trash, conv, editor>>

GoOffline == online /\ Environment(FALSE, userId)

GoOnline == ~online /\ Environment(TRUE, userId)

SignIn == userId = <<>> /\ Environment(online, Uid)

SignOut == userId # <<>> /\ Environment(online, <<>>)

ListNotes ==
    /\ Ready
    /\ \E includeDeleted \in BOOLEAN, net \in Nets, cloudOk \in CloudOks :
           \E out \in {useNotes(localStorage, server, ~online, userId, net, cloudOk, now,
                                includeDeleted)},
              off \in {useNotes(localStorage, server, TRUE, userId, net, cloudOk, now,
                                includeDeleted)} :
               Intent("useNotes", [includeDeleted |-> includeDeleted], net, cloudOk, out, off)

GetNote ==
    /\ Ready
    /\ \E id \in NoteIds, net \in Nets :
           \E out \in {useNoteById(localStorage, server, ~online, net, id)},
              off \in {useNoteById(localStorage, server, TRUE, net, id)} :
               Intent("useNoteById", [id |-> id], net, TRUE, out, off)

ListTags ==
    /\ Ready
    /\ \E net \in Nets :
           \E out \in {useTags(localStorage, server, ~online, net)},
              off \in {useTags(localStorage, server, TRUE, net)} :
               Intent("useTags", <<>>, net, TRUE, out, off)

SearchNotes ==
    /\ Ready
    /\ \E query \in Queries, net \in Nets :
           \E out \in {useSearchNotes(localStorage, server, ~online, net, query)},
              off \in {useSearchNotes(localStorage, server, TRUE, net, query)} :
               Intent("useSearchNotes", [query |-> query], net, TRUE, out, off)

CreateWith(note, tempId, net, cloudOk, retryOf) ==
    /\ MayCreateNote(net)
    /\ \E out \in {useCreateNote(localStorage, server, ~online, userId, net, cloudOk, now,
                                 tempId, note)},
          off \in {useCreateNote(localStorage, server, TRUE, userId, net, cloudOk, now,
                                 tempId, note)} :
           /\ Complete("useCreateNote", [tempId |-> tempId, note |-> note], net, cloudOk,
                       out, off)
           /\ pending' = PendingAfter(out, retryOf)
           /\ reconciled' = ReconciledAfter(out, retryOf)
           /\ UNCHANGED <<conv, editor>>

CreateNote ==
    /\ Ready
    /\ \E note \in NewNotes, tempId \in TempIds, net \in Nets, cloudOk \in CloudOks :
           CreateWith(note, tempId, net, cloudOk, <<>>)

\* the user issues again the create intent of a note that so far exists only locally
RetryCreateNote ==
    /\ Ready
    /\ \E p \in pending, note \in NewNotes, tempId \in TempIds, net \in Nets, cloudOk \in CloudOks :
           CreateWith(note, tempId, net, cloudOk, <<p>>)

UpdateNote ==
    /\ Ready
    /\ \E id \in NoteIds, note \in NoteUpdates, net \in Nets, cloudOk \in CloudOks :
           \E out \in {useUpdateNote(localStorage, server, ~online, userId, net, cloudOk, now,
                                     id, note)},
              off \in {useUpdateNote(localStorage, server, TRUE, userId, net, cloudOk, now,
                                     id, note)} :
               Intent("useUpdateNote", [id |-> id, note |-> note], net, cloudOk, out, off)

DeleteNote ==
    /\ Ready
    /\ \E id \in NoteIds, net \in Nets :
           \E out \in {useDeleteNote(localStorage, server, ~online, net, now, id)},
              off \in {useDeleteNote(localStorage, server, TRUE, net, now, id)} :
               Intent("useDeleteNote", [id |-> id], net, TRUE, out, off)

RestoreNote ==
    /\ Ready
    /\ \E id \in NoteIds, net \in Nets :
           \E out \in {useRestoreNote(localStorage, server, ~online, net, now, id)},
              off \in {useRestoreNote(localStorage, server, TRUE, net, now, id)} :
               Intent("useRestoreNote", [id |-> id], net, TRUE, out, off)

ToggleFavorite ==
    /\ Ready
    /\ \E id \in NoteIds, net \in Nets :
           \E out \in {useToggleFavorite(localStorage, server, ~online, net, now, id)},
              off \in {useToggleFavorite(localStorage, server, TRUE, net, now, id)} :
               Intent("useToggleFavorite", [id |-> id], net, TRUE, out, off)

CreateTag ==
    /\ Ready
    /\ \E tag \in NewTags, tempId \in TempIds, net \in {n \in Nets : MayCreateTag(n)} :
           \E out \in {useCreateTag(localStorage, server, ~online, net, tempId, tag)},
              off \in {useCreateTag(localStorage, server, TRUE, net, tempId, tag)} :
               Intent("useCreateTag", [tempId |-> tempId, tag |-> tag], net, TRUE, out, off)

UpdateTag ==
    /\ Ready
    /\ \E id \in TagIds, tag \in TagUpdates, net \in Nets :
           \E out \in {useUpdateTag(localStorage, server, ~online, net, id, tag)},
              off \in {useUpdateTag(localStorage, server, TRUE, net, id, tag)} :
               Intent("useUpdateTag", [id |-> id, tag |-> tag], net, TRUE, out, off)

DeleteTag ==
    /\ Ready
    /\ \E id \in TagIds, net \in Nets :
           \E out \in {useDeleteTag(localStorage, server, ~online, net, id)},
              off \in {useDeleteTag(localStorage, server, TRUE, net, id)} :
               Intent("useDeleteTag", [id |-> id], net, TRUE, out, off)

AddTagToNote ==
    /\ Ready
    /\ \E noteId \in NoteIds, tagId \in TagIds, net \in Nets :
           \E out \in {useAddTagToNote(localStorage, server, ~online, net, noteId, tagId)},
              off \in {useAddTagToNote(localStorage, server, TRUE, net, noteId, tagId)} :
               Intent("useAddTagToNote", [noteId |-> noteId, tagId |-> tagId], net, TRUE, out, off)

RemoveTagFromNote ==
    /\ Ready
    /\ \E noteId \in NoteIds, tagId \in TagIds, net \in Nets :
           \E out \in {useRemoveTagFromNote(localStorage, server, ~online, net, noteId, tagId)},
              off \in {useRemoveTagFromNote(localStorage, server, TRUE, net, noteId, tagId)} :
               Intent("useRemoveTagFromNote", [noteId |-> noteId, tagId |-> tagId], net, TRUE,
                      out, off)

\* every intent, MaxIntents of them
Next ==
    \/ GoOffline \/ GoOnline \/ SignIn \/ SignOut
    \/ Settle
    \/ ListNotes \/ GetNote \/ SearchNotes
    \/ CreateNote \/ RetryCreateNote \/ UpdateNote \/ DeleteNote \/ RestoreNote
    \/ ToggleFavorite
    \/ ListTags \/ CreateTag \/ UpdateTag \/ DeleteTag \/ AddTagToNote \/ RemoveTagFromNote

Spec == Init /\ [][Next]_vars

\* the note intents and the tag list, MaxDeep of them
NextNotes ==
    \/ GoOffline \/ GoOnline \/ SignIn \/ SignOut
    \/ Settle
    \/ ListNotes \/ GetNote \/ SearchNotes \/ ListTags
    \/ CreateNote \/ RetryCreateNote \/ UpdateNote \/ DeleteNote \/ RestoreNote
    \/ ToggleFavorite

SpecNotes == InitNotes /\ [][NextNotes]_vars

\* the request of a write intent on a note, answered from repository st at time t
RequestOf(op, a, st, t) ==
    CASE op = "useUpdateNote" -> PUT_notes_id(st, a.id, a.note, t)
      [] op = "useDeleteNote" -> DELETE_notes_id(st, a.id, t)
      [] op = "useRestoreNote" -> POST_notes_id_restore(st, a.id, t)
      [] op = "useToggleFavorite" -> POST_notes_id_toggle_favorite(st, a.id, t)

\* the rest of the mutation function once `await apiRequest(...)` has settled with
\* r: the lines after it in the try block, or the catch block
Resume(op, a, ls, st, uid, r, t) ==
    CASE op = "useUpdateNote" ->
             IF r.threw THEN useUpdateNote_catch(ls, st, a.id, a.note, t, RemoteClass(r))
             ELSE useUpdateNote_remote(ls, st, uid, r.json, TRUE, t)
      [] op = "useDeleteNote" ->
             IF r.threw THEN useDeleteNote_catch(ls, st, a.id, t, RemoteClass(r))
             ELSE useDeleteNote_remote(ls, st, r.json, t)
      [] op = "useRestoreNote" ->
             IF r.threw THEN useRestoreNote_catch(ls, st, a.id, t, RemoteClass(r))
             ELSE useRestoreNote_remote(ls, st, r.json, t)
      [] op = "useToggleFavorite" ->
             IF r.threw THEN useToggleFavorite_catch(ls, st, a.id, t, RemoteClass(r))
             ELSE useToggleFavorite_remote(ls, st, r.json)

\* the same write intent when isOffline() is true: the offline branch of its hook
Offline(op, a, ls, st, t) ==
    CASE op = "useUpdateNote" -> useUpdateNote_offline(ls, st, a.id, a.note, t)
      [] op = "useDeleteNote" -> useDeleteNote_offline(ls, st, a.id, t)
      [] op = "useRestoreNote" -> useRestoreNote_offline(ls, st, a.id, t)
      [] op = "useToggleFavorite" -> useToggleFavorite_offline(ls, st, a.id, t)

\* the requests that have not been answered to their hook yet
Waiting == {f \in flight : f.stage # "done"}

\* a write intent on a note starts while online: isOffline() is false and the
\* request is sent; at most two intents wait for their response
Send ==
    /\ Ready
    /\ online
    /\ Cardinality(Waiting) < 2
    /\ \E op \in NoteWrites, id \in NoteIds :
           flight' = flight \cup
               {[k |-> Cardinality(flight) + 1, op |-> op,
                 args |-> IF op = "useUpdateNote" THEN [id |-> id, note |-> [title |-> Trip]]
                          ELSE [id |-> id],
                 stage |-> "sent", r |-> <<>>, at |-> 0, remote |-> "none"]}
    /\ left' = left - 1
    /\ UNCHANGED <<localStorage, server, online, userId, now, last, pending, reconciled, dirty,
                   trash, conv, editor,
                   listeners>>

\* a request reaches the server and is answered, or the transport fails
Serve ==
    \E f \in flight, net \in Nets :
        /\ f.stage = "sent"
        /\ \E r \in {apiRequest(net, server, RequestOf(f.op, f.args, server, now))} :
               /\ server' = r.st
               /\ flight' = (flight \ {f}) \cup {[f EXCEPT !.stage = "settled", !.r = r]}
        /\ now' = now + 1
        /\ UNCHANGED <<localStorage, online, userId, last, left, pending, reconciled, dirty,
                       trash, conv, editor,
                   listeners>>

\* the outcome of apiRequest is delivered to the waiting mutation function, which
\* runs to its end
Receive ==
    /\ last.op = "none"
    /\ \E f \in flight :
           /\ f.stage = "settled"
           /\ \E out \in {Resume(f.op, f.args, localStorage, server, userId, f.r, now)},
                 off \in {Offline(f.op, f.args, localStorage, server, now)} :
                  /\ localStorage' = out.ls
                  /\ last' = [op |-> f.op, args |-> f.args, offline |-> FALSE,
                              net |-> IF f.r.threw /\ f.r.error = "network" THEN "down" ELSE "up",
                              cloudOk |-> TRUE, remote |-> out.remote, pulls |-> out.pulls,
                              pushes |-> out.pushes, res |-> out.res,
                              toast |-> toastOf(f.op, out.res.threw, ~online),
                              before |-> localStorage,
                              off |-> off]
                  /\ dirty' = DirtyAfter(f.op, f.args, out)
                  /\ flight' = (flight \ {f}) \cup
                                   {[f EXCEPT !.stage = "done", !.remote = out.remote,
                                              !.at = Cardinality(flight \ Waiting) + 1]}
    /\ now' = now + 1
    /\ UNCHANGED <<server, online, userId, left, pending, reconciled, trash, conv, editor,
                   listeners>>

InitRace == Start(MaxRace)

\* note writes whose requests and responses interleave, MaxRace intents
NextRace ==
    \/ Settle
    \/ CreateNote
    \/ Send \/ Serve \/ Receive

SpecRace == InitRace /\ [][NextRace]_vars

InitTags == Start(MaxRel)

\* the intents on relations and on the tags they refer to, MaxRel of them
NextTags ==
    \/ GoOffline \/ GoOnline
    \/ Settle
    \/ CreateNote \/ ListTags \/ AddTagToNote \/ RemoveTagFromNote \/ DeleteTag

SpecTags == InitTags /\ [][NextTags]_vars

----------------------------------------------------------------------------
(* Properties.  `last` describes the intent that has just completed, until *)
(* Settle clears it: last.before is the Local Store the intent started     *)
(* from and last.off the outcome of the same intent run offline from the   *)
(* same state.  The intent ran when the clock read now - 1.                *)

Done == last.op # "none"

\* the Local Store holds a note record with this id
HasLocalNote(id) == \E n \in Range(localStorage.notes) : IdIs(n, id)

\* the offline lists of the Local Store: notes, tags and relations
Lists(ls) == <<ls.notes, ls.tags, ls.noteTags>>

\* C1: once the create intent of a note created offline under placeholder id p is
\* issued again and succeeds with server id s, the Local Store holds a record with
\* id s and no record with id p.
C1_PlaceholderReplaced ==
    \A r \in reconciled :
        (last.op = "useCreateNote" /\ last.remote = "ok" /\ last.res.value.id = r.s)
            => HasLocalNote(r.s) /\ ~HasLocalNote(r.p)

\* C2: an online write intent (note update, soft-delete, restore, toggle-favorite,
\* tag create, update, delete, tag add and remove) that the Remote API rejects
\* raises the error to the caller and leaves notes, tags and relations unchanged.
C2_RejectionPropagates ==
    (last.op \in NoteWrites \cup TagWrites /\ last.remote = "rejected")
        => last.res.threw /\ Lists(localStorage) = Lists(last.before)

\* C3: an intent issued online whose Remote API call can only fail with a network
\* error completes as the same intent does offline: both throw, or both return the
\* same value, and the Local Store lists end up the same.
C3_NetworkDownIsOffline ==
    (Done /\ ~last.offline /\ last.net = "down")
        => /\ last.res.threw = last.off.res.threw
           /\ ~last.res.threw => last.res.value = last.off.res.value
           /\ Lists(localStorage) = Lists(last.off.ls)

\* the ids of the notes a successful online read returned
ReturnedNoteIds ==
    IF last.op = "useNotes" THEN {n.id : n \in Range(last.res.value)}
    ELSE {last.res.value[1].id}

\* C4: after a successful online read (list notes, get note) that returns note id,
\* the Local Store record of id still carries every field value that a local-only
\* mutation of that note had set.
C4_LocalMutationKept ==
    (last.op \in {"useNotes", "useNoteById"} /\ last.remote = "ok")
        => \A id \in (DOMAIN dirty) \cap ReturnedNoteIds :
               \E n \in Range(localStorage.notes) :
                   /\ IdIs(n, id)
                   /\ \A k \in DOMAIN dirty[id] : Has(n, k) /\ n[k] = dirty[id][k]

\* C5: after a soft-delete intent for note n succeeded against the Remote API, the
\* Local Store record with id n has isDeleted = true.
C5_DeletedLocally ==
    (last.op = "useDeleteNote" /\ last.remote = "ok")
        => \E n \in Range(localStorage.notes) : IdIs(n, last.args.id) /\ Truthy(n, "isDeleted")

\* C6: an intent that starts while the connectivity signal says offline makes no
\* Remote API call and no Cloud Backup call: the server and the cloud snapshot are
\* as before.
C6_OfflineStaysLocal ==
    [][(last'.op # "none" /\ ~online)
           => /\ last'.offline
              /\ last'.remote = "none" /\ last'.pulls = 0 /\ last'.pushes = 0
              /\ server' = server
              /\ localStorage'.cloudNotes = localStorage.cloudNotes]_vars

\* C6 witness: an offline update has changed a note of the Local Store.
C6_OfflineUpdateDone ==
    /\ last.op = "useUpdateNote" /\ last.offline /\ ~last.res.threw
    /\ localStorage.notes # last.before.notes

\* C7: a list-notes intent issued online calls the Remote API and, when the call
\* succeeds, returns what the Remote API returned.
C7_ListAsksRemote ==
    (last.op = "useNotes" /\ ~last.offline)
        => /\ last.remote # "none"
           /\ last.remote = "ok"
                  => last.res.value = GET_notes(server, last.args.includeDeleted).json

\* what a successful online read returned is in the Local Store as returned
WrittenThrough ==
    CASE last.op = "useNotes" -> Range(last.res.value) \subseteq Range(localStorage.notes)
      [] last.op = "useNoteById" -> Range(last.res.value) \subseteq Range(localStorage.notes)
      [] last.op = "useTags" -> Range(last.res.value) \subseteq Range(localStorage.tags)

SuccessfulRead == last.op \in {"useNotes", "useNoteById", "useTags"} /\ last.remote = "ok"

C9_NetworkFallback ==
    (last.op \in Reads /\ ~last.offline /\ last.remote = "network")
        => ~last.res.threw /\ last.res = last.off.res

\* C10: an online read intent that the Remote API answers with an application error
\* raises that error to the caller.
C10_ReadRejectionPropagates ==
    (last.op \in Reads /\ last.remote = "rejected") => last.res.threw

\* every hook whose mutation function changes notes, tags or relations
Mutations == {"useCreateNote"} \cup NoteWrites \cup TagWrites

\* C13: for every mutation intent that completes, the toast reports offline
\* exactly when the mutation was applied only to the Local Store, and live
\* exactly when the Remote API accepted it.
C13_ToastTellsDurability ==
    (last.op \in Mutations /\ ~last.res.threw) =>
        /\ last.toast = "offline" <=> last.remote # "ok"
        /\ last.toast = "live" <=> last.remote = "ok"

\* the record with this id is absent from a list of the Local Store
Absent(list, id) == \A e \in Range(list) : ~IdIs(e, id)

\* the intent just run offline addressed a note or tag the Local Store lacks
OfflineTargetAbsent ==
    /\ last.offline
    /\ \/ last.op \in NoteWrites /\ Absent(last.before.notes, last.args.id)
       \/ last.op \in {"useUpdateTag", "useDeleteTag"} /\ Absent(last.before.tags, last.args.id)

\* C14: while offline, an update, soft-delete, restore or toggle-favorite of a
\* note id absent from the Local Store, and an update or delete of an absent tag
\* id, fails with an error for the caller and leaves the Local Store unchanged.
C14_AbsentTargetFails ==
    OfflineTargetAbsent => last.res.threw /\ localStorage = last.before

\* an offline update of an absent note failed while the Local Store held another note
C14_AbsentUpdateFailed ==
    /\ OfflineTargetAbsent
    /\ last.op = "useUpdateNote"
    /\ last.before.notes # <<>>
    /\ last.res.threw

\* the Remote API accepted a create or update and the snapshot push that followed failed
PushFailedAfterWrite ==
    /\ last.op \in {"useCreateNote", "useUpdateNote"}
    /\ last.remote = "ok"
    /\ last.pushes > 0
    /\ ~last.cloudOk

\* C15: when the Cloud Backup push fails after the Remote API accepted a create
\* or an update, the intent still returns the entity the server returned, the
\* Local Store holds that entity, and no error reaches the caller.
C15_PushFailureSwallowed ==
    PushFailedAfterWrite =>
        /\ ~last.res.threw
        /\ MemStorage_getNoteWithTags(server, last.res.value.id) = <<last.res.value>>
        /\ \E n \in Range(localStorage.notes) : n = last.res.value
        /\ localStorage.cloudNotes = last.before.cloudNotes

\* an update of a signed-in user was accepted and its snapshot push failed
C15_UpdatePushFailed == PushFailedAfterWrite /\ last.op = "useUpdateNote"

\* C16: whenever a write intent of a signed-in user (create, update, soft-delete,
\* restore, toggle-favorite, tag add or remove) is accepted by the Remote API, a
\* push of the snapshot to the Cloud Backup is attempted before the intent returns.
C16_WritePushesSnapshot ==
    (/\ last.op \in {"useCreateNote"} \cup NoteWrites \cup {"useAddTagToNote", "useRemoveTagFromNote"}
     /\ last.remote = "ok"
     /\ userId # <<>>) => last.pushes > 0

\* C17: every id synthesized for a note or tag created offline or after a failed
\* request is a strictly negative integer, hence different from every id the
\* server assigns.
C17_PlaceholderNegative ==
    (last.op \in {"useCreateNote", "useCreateTag"} /\ last.remote # "ok") =>
        last.res.value.id < 0

\* the (noteId, tagId) pairs of a relation list, in order
Pairs(noteTags) == [i \in 1..Len(noteTags) |-> <<noteTags[i].noteId, noteTags[i].tagId>>]

\* no pair occurs twice in the list
Unique(noteTags) ==
    \A i, j \in 1..Len(noteTags) : Pairs(noteTags)[i] = Pairs(noteTags)[j] => i = j

\* the relation rows other than those of the pair (noteId, tagId)
Without(noteTags, noteId, tagId) ==
    LET Other(nt) == ~(nt.noteId = noteId /\ nt.tagId = tagId)
    IN  SelectSeq(noteTags, Other)

\* the relation rows that do not refer to the tag
WithoutTag(noteTags, tagId) == LET Other(nt) == nt.tagId # tagId IN SelectSeq(noteTags, Other)

\* C18: in the Local Store and in the Server Repository every relation
\* (noteId, tagId) occurs at most once, and adding a relation that already
\* exists leaves the relations unchanged.
C18_RelationsUnique ==
    [][/\ Unique(localStorage'.noteTags)
       /\ Unique(server'.noteTags)
       /\ last'.op = "useAddTagToNote" =>
              LET pair == <<last'.args.noteId, last'.args.tagId>>
              IN  /\ pair \in Range(Pairs(server.noteTags)) => server'.noteTags = server.noteTags
                  /\ pair \in Range(Pairs(localStorage.noteTags)) =>
                         localStorage'.noteTags = localStorage.noteTags]_vars

\* a relation present on both sides was added again and the server accepted the request
C18_AddedTwice ==
    /\ last.op = "useAddTagToNote"
    /\ last.remote = "ok"
    /\ <<last.args.noteId, last.args.tagId>> \in Range(Pairs(last.before.noteTags))
    /\ Len(server.noteTags) = 1
    /\ Len(localStorage.noteTags) = 1

\* C19: removing the relation (noteId, tagId) removes exactly that pair and
\* leaves every other relation, every note and every tag unchanged, on the
\* server and in the Local Store; removing a pair that does not exist changes
\* nothing.
C19_RemoveExactlyThePair ==
    [][last'.op = "useRemoveTagFromNote" =>
          LET noteId == last'.args.noteId
              tagId == last'.args.tagId
          IN  /\ server'.notes = server.notes /\ server'.tags = server.tags
              /\ localStorage'.notes = localStorage.notes
              /\ localStorage'.tags = localStorage.tags
              /\ server'.noteTags = IF last'.remote = "ok"
                                    THEN Without(server.noteTags, noteId, tagId)
                                    ELSE server.noteTags
              /\ localStorage'.noteTags = IF last'.res.threw THEN localStorage.noteTags
                                          ELSE Without(localStorage.noteTags, noteId, tagId)]_vars

\* one of the two tags of a note was removed, on the server and locally
C19_RemovedOneOfTwo ==
    /\ last.op = "useRemoveTagFromNote"
    /\ last.remote = "ok"
    /\ Len(last.before.noteTags) = 2
    /\ Len(localStorage.noteTags) = 1
    /\ Len(server.noteTags) = 1
    /\ Len(MemStorage_getTagsForNote(server, last.args.noteId)) = 1

\* C20: deleting tag T removes T and every relation that refers to T, in the
\* Server Repository when the request is accepted and in the Local Store when
\* the intent succeeds, so that no note has T among its tags afterwards; the
\* relations to other tags and the notes are unchanged.
C20_DeleteTagCascades ==
    [][(last'.op = "useDeleteTag" /\ ~last'.res.threw) =>
          LET T == last'.args.id
          IN  /\ Absent(localStorage'.tags, T)
              /\ localStorage'.noteTags = WithoutTag(localStorage.noteTags, T)
              /\ localStorage'.notes = localStorage.notes
              /\ \A n \in Range(getOfflineNotesWithTags(localStorage')) :
                     \A tag \in Range(n.tags) : tag.id # T
              /\ last'.remote = "ok" =>
                     /\ MemStorage_getTag(server', T) = <<>>
                     /\ server'.noteTags = WithoutTag(server.noteTags, T)
                     /\ server'.notes = server.notes
                     /\ \A n \in Range(server'.notes) :
                            \A tag \in Range(MemStorage_getTagsForNote(server', n.id)) :
                                tag.id # T]_vars

\* a tag related to a note that has another tag was deleted on both sides
C20_DeletedRelatedTag ==
    /\ last.op = "useDeleteTag"
    /\ last.remote = "ok"
    /\ Len(last.before.noteTags) = 2
    /\ Len(localStorage.noteTags) = 1
    /\ Len(server.noteTags) = 1

\* the write intents whose mutation function has returned
Landed == flight \ Waiting

\* the intent that completed last
Latest == CHOOSE f \in Landed : \A g \in Landed : g.at <= f.at

\* two write intents on the same note were both accepted by the Remote API and
\* both have completed, the later of them just now
BothLanded ==
    /\ Waiting = {}
    /\ last.op \in NoteWrites
    /\ last.remote = "ok"
    /\ \E g \in Landed \ {Latest} : g.args.id = last.args.id /\ g.remote = "ok"

\* what the intent that has just completed stored for its note: the entity of the
\* response for update and toggle, the response marked deleted or restored
\* for soft-delete and restore
Written ==
    CASE last.op = "useDeleteNote" ->
             Spread(last.res.value, [isDeleted |-> TRUE, updatedAt |-> now - 1])
      [] last.op = "useRestoreNote" ->
             Spread(last.res.value, [isDeleted |-> FALSE, updatedAt |-> now - 1])
      [] OTHER -> last.res.value

\* C11: when two interleaved write intents on the same note id both succeed
\* online, the Local Store record of that id is, after both have completed, the
\* entity written by the intent whose response arrived last, whichever of them
\* was initiated first.
C11_LastCompletionWins ==
    BothLanded =>
        \E n \in Range(localStorage.notes) : IdIs(n, last.args.id) /\ n = Written

\* the columns of a note the client and the server both keep; a flag that is
\* missing reads as false
Columns(note) ==
    Spread(Pick(note, {"title", "content"}),
           [isFavorite |-> Truthy(note, "isFavorite"), isDeleted |-> Truthy(note, "isDeleted")])

\* C12: whenever no intent is in flight and the intents on a note all succeeded
\* against the Remote API, the Local Store record of that note equals the
\* server's record in title, content, isFavorite and isDeleted, for every
\* interleaving of requests and responses.
C12_LocalEqualsServer ==
    \A id \in NoteIds :
        (/\ Waiting = {}
         /\ \E f \in Landed : f.args.id = id
         /\ \A f \in Landed : f.args.id = id => f.remote = "ok") =>
            \E n \in Range(localStorage.notes) :
                /\ IdIs(n, id)
                /\ Columns(n) = Columns(MemStorage_getNote(server, id)[1])

\* C22: after every completed intent, each relation row of the Local Store
\* refers to a note and to a tag that are both present in the Local Store.
C22_LocalRelationsResolve ==
    \A nt \in Range(localStorage.noteTags) :
        /\ ~Absent(localStorage.notes, nt.noteId)
        /\ ~Absent(localStorage.tags, nt.tagId)

\* a soft-deleted note of the repository is left out of the default listing,
\* listed when deleted notes are asked for, and restoreNote brings it back
InTrash(st, n) ==
    /\ n \notin Range(MemStorage_getNotes(st, FALSE))
    /\ n \in Range(MemStorage_getNotes(st, TRUE))
    /\ LET restored == MemStorage_restoreNote(st, n.id, now)
       IN  /\ restored.ret # <<>>
           /\ ~Truthy(restored.ret[1], "isDeleted")
           /\ restored.ret[1] \in Range(MemStorage_getNotes(restored.st, FALSE))

\* C28: no operation of the Server Repository removes a note: a note once
\* created is returned by getNote in every later state; a note with
\* isDeleted = true is absent from getNotes(false), present in getNotes(true),
\* and can be restored.
C28_NotesRetained ==
    [][/\ \A n \in Range(server.notes) : MemStorage_getNote(server', n.id) # <<>>
       /\ \A n \in Range(server'.notes) : Truthy(n, "isDeleted") => InTrash(server', n)]_vars

\* the server has just soft-deleted a note
C28_NoteInTrash ==
    /\ last.op = "useDeleteNote"
    /\ last.remote = "ok"
    /\ \E n \in Range(server.notes) : n.id = last.args.id /\ Truthy(n, "isDeleted")

\* the note of the given id in a list of notes
NoteOf(list, id) == CHOOSE n \in Range(list) : IdIs(n, id)

\* note n is note o after a mutation at time t
Stamped(o, n, t) ==
    /\ n.updatedAt = t
    /\ n.updatedAt >= o.updatedAt
    /\ n.id = o.id
    /\ n.createdAt = o.createdAt

\* C29: every mutation of a note (update, soft-delete, restore, toggle of the
\* favourite flag), applied by the server or applied locally while offline or
\* degraded, sets updatedAt to the time of the mutation, never earlier than
\* the previous value, and leaves id and createdAt unchanged.
C29_MutationStamps ==
    [][(last.op = "none" /\ last'.op \in NoteWrites) =>
         LET id == last'.args.id
         IN  /\ last'.remote = "ok" =>
                    Stamped(MapGet(server.notes, id)[1], MapGet(server'.notes, id)[1], now)
             /\ (last'.remote # "ok" /\ ~last'.res.threw) =>
                    Stamped(NoteOf(localStorage.notes, id), NoteOf(localStorage'.notes, id), now)]_vars

\* a note created earlier has just been mutated in the Local Store only
C29_StampedLocally ==
    /\ last.op \in NoteWrites
    /\ last.remote # "ok"
    /\ ~last.res.threw
    /\ \E n \in Range(localStorage.notes) :
           IdIs(n, last.args.id) /\ n.updatedAt = now - 1 /\ n.createdAt < n.updatedAt

\* the note a completed create or mutation intent l handed to saveOfflineNote
SavedBy(l) ==
    IF l.remote = "ok" /\ l.op = "useDeleteNote"
    THEN Spread(l.res.value, [isDeleted |-> TRUE, updatedAt |-> now])
    ELSE IF l.remote = "ok" /\ l.op = "useRestoreNote"
    THEN Spread(l.res.value, [isDeleted |-> FALSE, updatedAt |-> now])
    ELSE l.res.value

\* Local Store b is Local Store a after an upsert of note, keyed by id
Upserted(a, b, note) ==
    /\ Cardinality({i \in DOMAIN b.notes : SameId(b.notes[i], note)}) = 1
    /\ \A i \in DOMAIN b.notes : SameId(b.notes[i], note) => b.notes[i] = note
    /\ b.tags = a.tags
    /\ b.noteTags = a.noteTags
    /\ IF \E i \in DOMAIN a.notes : SameId(a.notes[i], note)
       THEN /\ Len(b.notes) = Len(a.notes)
            /\ \A i \in DOMAIN a.notes :
                   IF SameId(a.notes[i], note) THEN b.notes[i] = note
                   ELSE b.notes[i] = a.notes[i]
       ELSE b.notes = Append(a.notes, note)

\* C26: the local saveNote is an upsert keyed by id with full replacement:
\* after it exactly one record has the id of the given note and equals that
\* note, every other note and every tag and relation is unchanged, a replaced
\* record keeps its position and a new record is appended.
C26_SaveIsUpsert ==
    [][(/\ last.op = "none"
        /\ last'.op \in {"useCreateNote"} \cup NoteWrites
        /\ ~last'.res.threw) => Upserted(localStorage, localStorage', SavedBy(last'))]_vars

\* a mutation has replaced the first of two local notes in place
C26_ReplacedInPlace ==
    /\ last.op \in NoteWrites
    /\ ~last.res.threw
    /\ Len(localStorage.notes) >= 2
    /\ SameId(localStorage.notes[1], SavedBy(last))
    /\ localStorage.notes[1] # last.before.notes[1]

\* the tagIds a client of the Remote API sends with an update: none, a default
\* tag, the id of a tag the server does not have
TagLists == {<<>>, <<1>>, <<6>>}

\* an update whose body carries tagIds, which PUT /notes/:id diffs against the
\* relations of the note
UpdateTags ==
    /\ Ready
    /\ \E id \in NoteIds, tagIds \in TagLists, net \in Nets, cloudOk \in CloudOks :
           \E out \in {useUpdateNote(localStorage, server, ~online, userId, net, cloudOk, now,
                                     id, [tagIds |-> tagIds])},
              off \in {useUpdateNote(localStorage, server, TRUE, userId, net, cloudOk, now,
                                     id, [tagIds |-> tagIds])} :
               Intent("useUpdateNote", [id |-> id, note |-> [tagIds |-> tagIds]], net, cloudOk,
                      out, off)

InitTagged == Start(MaxTagged)

\* the life of a tagged note: created, tagged, read, edited, trashed and restored,
\* MaxTagged intents
NextTagged ==
    \/ GoOffline \/ GoOnline
    \/ Settle
    \/ CreateNote \/ ListTags \/ ListNotes \/ GetNote
    \/ AddTagToNote \/ UpdateNote \/ UpdateTags
    \/ DeleteNote \/ RestoreNote

SpecTagged == InitTagged /\ [][NextTagged]_vars

\* the ids of a list of tags
TagIdsOf(tags) == {tag.id : tag \in Range(tags)}

\* note n is note o brought back from the trash
Restored(o, n) ==
    /\ \A k \in {"id", "title", "content", "createdAt"} : o[k] = n[k]
    /\ Truthy(o, "isFavorite") = Truthy(n, "isFavorite")
    /\ TagIdsOf(o.tags) = TagIdsOf(n.tags)
    /\ ~Truthy(n, "isDeleted")
    /\ n.updatedAt >= o.updatedAt

\* a delete intent and the restore intent after it were carried out for the same
\* note by the same store
DeletedThenRestored ==
    /\ last.op = "useRestoreNote"
    /\ trash # <<>>
    /\ trash[1].restored

\* C21: for any existing note, a soft delete followed by a restore yields a
\* note equal to the note before the delete in id, title, content, isFavorite,
\* createdAt and tag set, with isDeleted false and an updatedAt not earlier
\* than before.
C21_RestoreUndoesDelete ==
    DeletedThenRestored =>
        LET restored == NoteView(localStorage, server, last.remote, last.args.id)
        IN  restored # <<>> /\ Restored(trash[1].note[1], restored[1])

\* the server has trashed and restored a tagged note
C21_TaggedNoteRestored ==
    /\ DeletedThenRestored
    /\ last.remote = "ok"
    /\ trash[1].note[1].tags # <<>>

\* the tag ids the repository relates to a note
RelatedTagIds(st, noteId) == {nt.tagId : nt \in {x \in Range(st.noteTags) : x.noteId = noteId}}

\* C27: after PUT /notes/{id} with tagIds = S has succeeded, the set of tag ids
\* related to the note is exactly S and the relations of every other note are
\* unchanged.
C27_PutSetsTags ==
    [][(/\ last.op = "none"
        /\ last'.op = "useUpdateNote"
        /\ Has(last'.args.note, "tagIds")
        /\ last'.remote = "ok") =>
         /\ RelatedTagIds(server', last'.args.id) = Range(last'.args.note.tagIds)
         /\ \A nt \in Range(server.noteTags) \cup Range(server'.noteTags) :
                nt.noteId # last'.args.id =>
                    (nt \in Range(server.noteTags) <=> nt \in Range(server'.noteTags))]_vars

\* the notes a completed read intent l returned
NotesRead(l) == Range(l.res.value)

\* C30: after a successful online read of a note that has tag set S on the
\* server, an offline read of that note, whose tags are recomputed from the
\* relations of the Local Store, returns the same tag set S.
C30_OfflineReadSameTags ==
    (last.op \in {"useNotes", "useNoteById"} /\ last.remote = "ok" /\ ~last.res.threw) =>
        \A n \in NotesRead(last) :
            LET offlineRead == useNoteById_offline(localStorage, n.id)
            IN  /\ ~offlineRead.threw
                /\ offlineRead.value # <<>>
                /\ TagIdsOf(offlineRead.value[1].tags) = TagIdsOf(n.tags)

\* the empty query and a query of white space
BlankQueries == {<<>>, <<" ">>}

\* the queries of the search box and the beginning of the name of a default tag
LocalQueries == Queries \cup {<<"w", "o", "r">>}

\* a caller of the Local Store runs searchOfflineNotes(query)
SearchLocal ==
    /\ Ready
    /\ \E query \in LocalQueries \cup BlankQueries :
           \E res \in {searchOfflineNotes(localStorage, query)} :
               last' = [NoIntent EXCEPT !.op = "searchOfflineNotes",
                                        !.args = [query |-> query],
                                        !.offline = ~online,
                                        !.res = res,
                                        !.before = localStorage]
    /\ left' = left - 1
    /\ now' = now + 1
    /\ UNCHANGED <<localStorage, server, online, userId, pending, reconciled, dirty, flight,
                   trash, conv, editor,
                   listeners>>

InitSearch == Start(MaxSearch)

\* notes created, edited, tagged and trashed, and the searches over them
NextSearch ==
    \/ GoOffline \/ GoOnline
    \/ Settle
    \/ CreateNote \/ UpdateNote \/ DeleteNote \/ ListTags \/ AddTagToNote
    \/ SearchNotes \/ SearchLocal

SpecSearch == InitSearch /\ [][NextSearch]_vars

\* C23: a local search with an empty or whitespace-only query returns all
\* non-deleted notes with their tags, and only those.
C23_BlankQueryListsAll ==
    (last.op = "searchOfflineNotes" /\ last.args.query \in BlankQueries) =>
        /\ ~last.res.threw
        /\ Range(last.res.value) =
               {n \in Range(getOfflineNotesWithTags(localStorage)) : ~Truthy(n, "isDeleted")}

\* string s contains string q, letter case aside
Contains(s, q) == includes(toLowerCase(s), toLowerCase(q))

\* the notes of the Local Store, with their tags, that contain q in the title,
\* in the content or in the name of a tag
LocalMatches(ls, q) ==
    {n \in Range(getOfflineNotesWithTags(ls)) :
        \/ Has(n, "title") /\ Contains(n.title, q)
        \/ Has(n, "content") /\ Contains(n.content, q)
        \/ \E tag \in Range(n.tags) : Contains(tag.name, q)}

\* what a note with tags says: its columns and the ids of its tags
Said(n) == [note |-> Columns(n), tags |-> TagIdsOf(n.tags)]

\* the Local Store and the repository hold the same notes with the same tags
SameData ==
    {Said(n) : n \in Range(getOfflineNotesWithTags(localStorage))}
        = {Said(n) : n \in Range(MemStorage_getNotesWithTags(server, TRUE))}

\* C24: for a non-empty query q the local search returns exactly the notes whose
\* title, content or at least one tag name contains q case-insensitively, and
\* on the same data the result is a superset of the result of the server's
\* search for q.
C24_LocalSearchMatches ==
    (last.op = "searchOfflineNotes" /\ last.args.query \notin BlankQueries) =>
        /\ ~last.res.threw
        /\ Range(last.res.value) = LocalMatches(localStorage, last.args.query)
        /\ SameData =>
               {n.id : n \in Range(MemStorage_searchNotes(server, last.args.query))}
                   \subseteq {n.id : n \in Range(last.res.value)}

StoredKeys == {"notes", "tags", "noteTags"}

\* the list a key of the Local Store reads as
getOffline(ls, key) ==
    CASE key = "notes" -> getOfflineNotes(ls)
      [] key = "tags" -> getOfflineTags(ls)
      [] key = "noteTags" -> getOfflineNoteTags(ls)

\* what saveOfflineNote, saveOfflineTag or addOfflineTagToNote makes of the store
saveOffline(ls, key, t) ==
    CASE key = "notes" -> saveOfflineNote(ls, OfflineNote(0, [title |-> Trip], t))
      [] key = "tags" -> saveOfflineTag(ls, OfflineTag(0 - 1, [name |-> Trip]))
      [] key = "noteTags" -> addOfflineTagToNote(ls, 0, 0 - 1)

\* the value of a key is replaced behind the back of the client: the key is
\* removed, or its text is cut short, or it is set to the JSON of an object
Tamper ==
    /\ last.op = "none"
    /\ \E key \in StoredKeys, raw \in {<<>>, Unparseable, NotAList} :
           /\ localStorage[key] # raw
           /\ localStorage' = [localStorage EXCEPT ![key] = raw]
    /\ UNCHANGED <<server, online, userId, now, last, left, pending, reconciled, dirty, flight,
                   trash, conv, editor,
                   listeners>>

\* a call of the Local Store has returned res and left the store ls
Called(op, key, ls, res) ==
    /\ last' = [NoIntent EXCEPT !.op = op, !.args = [key |-> key], !.offline = ~online,
                                !.res = res, !.before = localStorage]
    /\ localStorage' = ls
    /\ left' = left - 1
    /\ now' = now + 1
    /\ UNCHANGED <<server, online, userId, pending, reconciled, dirty, flight, trash, conv, editor,
                   listeners>>

\* getOfflineNotes(), getOfflineTags() or getOfflineNoteTags()
ReadStored ==
    /\ Ready
    /\ \E key \in StoredKeys :
           Called("getOffline", key, localStorage, Return(getOffline(localStorage, key)))

\* saveOfflineNote, saveOfflineTag or addOfflineTagToNote: findIndex and some are
\* methods of arrays, the call on another value is a TypeError
WriteStored ==
    /\ Ready
    /\ \E key \in StoredKeys :
           IF getOffline(localStorage, key) = NotAList
           THEN Called("saveOffline", key, localStorage, Throw("TypeError"))
           ELSE Called("saveOffline", key, saveOffline(localStorage, key, now), Return(<<>>))

InitStored == Start(MaxStored)

\* the Local Store read and written while its keys are tampered with
NextStored == Tamper \/ Settle \/ ReadStored \/ WriteStored

SpecStored == InitStored /\ [][NextStored]_vars

\* C25: reading the offline notes, tags or relations when the persisted value
\* is missing or corrupt (unparseable, or parseable but not a list) yields an
\* empty collection, and no Local Store operation that follows throws because
\* of it.
C25_CorruptReadsEmpty ==
    /\ last.op = "getOffline" =>
           (last.before[last.args.key] \in {<<>>, Unparseable, NotAList} =>
                last.res.value = <<>>)
    /\ last.op = "saveOffline" => ~last.res.threw

----------------------------------------------------------------------------
(* Export of a note, and the markdown conversion of the export route turn  *)
(* by turn.                                                                *)

Formats == {"text", "markdown", "json"}

Paragraph == <<"<p>", "P", "a", "c", "k", " ", "b", "a", "g", "s", "</p>">>

\* the contents the editor saves: a paragraph, lists, a code block, a quote, and
\* the same elements around the text $&
Contents ==
    {Paragraph,
     <<"<ul>", "<li>", "a", "</li>", "<li>", "b", "</li>", "</ul>">>,
     <<"<ol>", "<li>", "a", "</li>", "<li>", "b", "</li>", "</ol>">>,
     <<"<pre>", "<code>", "a", "</code>", "</pre>">>,
     <<"<blockquote>", "a", "</blockquote>">>,
     <<"<ul>", "<li>", "$&", "</li>", "</ul>">>,
     <<"<blockquote>", "$&", "</blockquote>">>}

Drafts == {[title |-> Trip, content |-> content] : content \in Contents}

\* a note with a title and a content is created
WriteNote ==
    /\ Ready
    /\ \E note \in Drafts, tempId \in TempIds, net \in Nets, cloudOk \in CloudOks :
           CreateWith(note, tempId, net, cloudOk, <<>>)

\* exportNote(id, format): answered at once, or, for the markdown format of a
\* note the server has, by the conversion that begins with the chain of replaces
ExportNote ==
    /\ Ready
    /\ conv.stage = "idle"
    /\ \E id \in NoteIds, format \in Formats, net \in Nets :
           IF \/ ~online \/ net = "down" \/ format # "markdown"
              \/ MemStorage_getNoteWithTags(server, id) = <<>>
           THEN \E out \in {useExportNote(localStorage, server, ~online, net, id, format)},
                   off \in {useExportNote_offline(localStorage, server, id, format)} :
                    Intent("useExportNote", [id |-> id, format |-> format], net, TRUE, out, off)
           ELSE /\ conv' = [stage |-> "ul", args |-> [id |-> id, format |-> format],
                            title |-> MemStorage_getNoteWithTags(server, id)[1].title,
                            markdown |->
                                MarkInline(MemStorage_getNoteWithTags(server, id)[1].content),
                            turns |-> 0]
                /\ UNCHANGED <<localStorage, server, online, userId, now, last, left, pending,
                               reconciled, dirty, flight, trash, editor, listeners>>

\* the element pattern of the list loops and of the quote loop
OpenOf(stage) ==
    CASE stage = "ul" -> "<ul>" [] stage = "ol" -> "<ol>" [] stage = "quote" -> "<blockquote>"

CloseOf(stage) ==
    CASE stage = "ul" -> "</ul>" [] stage = "ol" -> "</ol>" [] stage = "quote" -> "</blockquote>"

\* pattern.exec(result) of the loop the conversion is in
Exec ==
    IF conv.stage = "code" THEN ExecCode(conv.markdown)
    ELSE ExecElement(conv.markdown, OpenOf(conv.stage), CloseOf(conv.stage))

\* the loop of a stage takes one more turn
Turn(stage, result) ==
    /\ conv.stage = stage
    /\ conv.turns < MaxTurns
    /\ Exec # <<>>
    /\ conv' = [conv EXCEPT !.markdown = result, !.turns = @ + 1]
    /\ UNCHANGED <<localStorage, server, online, userId, now, last, left, pending, reconciled,
                   dirty, flight, trash, editor, listeners>>

TurnUl == Turn("ul", convertUl(conv.markdown, Exec))

TurnOl == Turn("ol", convertOl(conv.markdown, Exec))

TurnQuote == Turn("quote", convertBlockquotes(conv.markdown, Exec))

\* exec returns null: the loop ends and the next helper is called. The loop of
\* convertCodeBlocks always ends so: the first replace of the chain has turned
\* every pre tag into a line end, and its pattern begins with one
LeaveLoop ==
    /\ conv.stage \in {"ul", "ol", "code"}
    /\ Exec = <<>>
    /\ conv' = [conv EXCEPT !.stage = CASE conv.stage = "ul" -> "ol" [] conv.stage = "ol" -> "code"
                                         [] conv.stage = "code" -> "quote",
                            !.turns = 0]
    /\ UNCHANGED <<localStorage, server, online, userId, now, last, left, pending, reconciled,
                   dirty, flight, trash, editor, listeners>>

\* the last loop has ended: the markdown is finished and sent under the title
SendMarkdown ==
    /\ Ready
    /\ conv.stage = "quote"
    /\ Exec = <<>>
    /\ \E out \in {Outcome(localStorage, server,
                            Return(ExportMarkdown(conv.title, Finish(conv.markdown))),
                            "ok", 0, 0)},
          off \in {useExportNote_offline(localStorage, server, conv.args.id, "markdown")} :
           Complete("useExportNote", conv.args, "up", TRUE, out, off)
    /\ conv' = NoConversion
    /\ UNCHANGED <<pending, reconciled, editor>>

InitExport == Start(MaxExport)

\* notes written and exported, MaxExport intents
NextExport ==
    \/ GoOffline \/ GoOnline
    \/ Settle
    \/ WriteNote \/ ExportNote
    \/ TurnUl \/ TurnOl \/ TurnQuote \/ LeaveLoop \/ SendMarkdown

SpecExport == InitExport /\ [][NextExport]_vars

\* an export intent has completed with the content the server sent
Exported(format) ==
    /\ last.op = "useExportNote"
    /\ last.args.format = format
    /\ last.remote = "ok"

\* C31: for every note and each export format (text, markdown, json) the offline
\* export rendered from the Local Store has the same content as the online
\* export of the same note by the Remote API; the text format has the markup
\* stripped in both.
C31_OfflineExportSame ==
    \A format \in Formats :
        (/\ Exported(format)
         /\ MemStorage_getNoteWithTags(server, last.args.id)
                = getOfflineNoteWithTags(localStorage, last.args.id)) =>
            /\ ~last.off.res.threw
            /\ last.off.res.value = last.res.value
            /\ format = "text" => \A unit \in Range(last.res.value) : unit \notin Tags

\* the text of a paragraph: letters and inner spaces
Plain(text) ==
    /\ text # <<>>
    /\ \A i \in 1..Len(text) :
           text[i] \in {"P", "a", "c", "k", "b", "g", "s"} \/ (text[i] = " " /\ 1 < i /\ i < Len(text))

\* the content of a note that is one paragraph of plain text
IsParagraph(content) ==
    /\ Len(content) >= 3
    /\ Head(content) = "<p>"
    /\ content[Len(content)] = "</p>"
    /\ Plain(SubSeq(content, 2, Len(content) - 1))

\* C32: the online markdown export of a note with title T whose content is a
\* single paragraph <p>X</p> is exactly "# T", a blank line, then X, with no
\* leading or trailing blank line.
C32_ParagraphMarkdown ==
    (Exported("markdown") /\ IsParagraph(MemStorage_getNote(server, last.args.id)[1].content)) =>
        LET note == MemStorage_getNote(server, last.args.id)[1]
        IN  last.res.value = <<"#", " ">> \o note.title \o <<"\n", "\n">>
                                \o SubSeq(note.content, 2, Len(note.content) - 1)

\* the markdown export of the paragraph note has been downloaded
C32_ParagraphExported ==
    /\ Exported("markdown")
    /\ MemStorage_getNote(server, last.args.id)[1].content = Paragraph
    /\ MemStorage_getNote(server, last.args.id)[1].title = Trip

\* C35: the markdown conversion terminates for every content: each of its
\* rewrite loops (unordered list, ordered list, code block, block quote)
\* strictly reduces the number of remaining matches on every turn, whatever
\* text the matched element contains.
C35_TurnsReduceMatches ==
    [][(conv.stage \in {"ul", "ol", "quote"} /\ conv'.stage = conv.stage
                                              /\ conv'.turns = conv.turns + 1) =>
          Matches(conv'.markdown, OpenOf(conv.stage), CloseOf(conv.stage))
              < Matches(conv.markdown, OpenOf(conv.stage), CloseOf(conv.stage))]_vars

\* the texts of the items of an ordered list <ol><li>a1</li>...<li>ak</li></ol>
RECURSIVE Items(_)
Items(list) ==
    LET m == ExecElement(list, "<li>", "</li>")
    IN  IF m = <<>> THEN <<>>
        ELSE <<Group1(list, m)>> \o Items(SubSeq(list, m[2] + 1, Len(list)))

\* the lines 'i. ai' for the items from the i-th on, a line end between them
RECURSIVE Numbered(_, _)
Numbered(items, i) ==
    IF items = <<>> THEN <<>>
    ELSE <<ToString(i), ".", " ">> \o Head(items)
             \o (IF Tail(items) = <<>> THEN <<>> ELSE <<"\n">> \o Numbered(Tail(items), i + 1))

IsOrderedList(content) ==
    /\ Len(content) >= 2
    /\ Head(content) = "<ol>"
    /\ content[Len(content)] = "</ol>"

\* C36: the markdown export converts an ordered list <ol><li>a1</li>...
\* <li>ak</li></ol> into k lines 'i. ai' for i = 1..k in order, each line
\* carrying the text of its own list item.
C36_OrderedListNumbered ==
    (Exported("markdown") /\ IsOrderedList(MemStorage_getNote(server, last.args.id)[1].content)) =>
        LET note == MemStorage_getNote(server, last.args.id)[1]
        IN  last.res.value = ExportMarkdown(note.title,
                                 Numbered(Items(SubSeq(note.content, 2, Len(note.content) - 1)), 1))

\* the default listing of the notes as it is served now: online, from the Cloud
\* Backup snapshot when the request fails, or offline from the Local Store
Listings ==
    {useNotes(localStorage, server, offline, userId, net, cloudOk, now, FALSE) :
        offline \in BOOLEAN, net \in Nets, cloudOk \in CloudOks}

\* C33: once a note is soft-deleted by a delete intent that succeeded against
\* the Remote API and is not restored, every later default listing of the notes
\* excludes it, whether served online, from the Cloud Backup snapshot or offline
\* from the Local Store.
C33_DeletedStaysOut ==
    (last.op = "useDeleteNote" /\ last.remote = "ok" /\ ~last.res.threw) =>
        \A listing \in Listings :
            ~listing.res.threw => \A n \in Range(listing.res.value) : ~IdIs(n, last.args.id)

\* C34: after any sequence of intents every record of the note list of the
\* Local Store has an integer id, and no two records share an id.
C34_LocalNotesHaveIds ==
    LET notes == getOfflineNotes(localStorage)
    IN  /\ \A i \in 1..Len(notes) : Has(notes[i], "id") /\ notes[i].id \in Int
        /\ \A i, j \in 1..Len(notes) :
               (Has(notes[i], "id") /\ Has(notes[j], "id") /\ notes[i].id = notes[j].id) => i = j

----------------------------------------------------------------------------
(* The Server Repository under creates, rejected creates, tag deletes and   *)
(* tag lists sent with a note.                                             *)

\* the bodies of POST /notes: the new note of the client, and { title: 5 }
NoteBodies == NewNotes \cup {[mistyped |-> "title"]}

\* the bodies of POST /tags: the new tag of the client, and a tag without a name
TagBodies == NewTags \cup {[color |-> "#3B82F6"]}

\* createNote(body), the server asked for at most MaxIds notes
PostNote ==
    /\ Ready
    /\ server.noteCurrentId <= MaxIds
    /\ \E note \in NoteBodies, tempId \in TempIds, net \in Nets, cloudOk \in CloudOks :
           \E out \in {useCreateNote(localStorage, server, ~online, userId, net, cloudOk, now,
                                     tempId, note)},
              off \in {useCreateNote(localStorage, server, TRUE, userId, net, cloudOk, now,
                                     tempId, note)} :
               /\ Complete("useCreateNote", [tempId |-> tempId, note |-> note], net, cloudOk,
                           out, off)
               /\ pending' = PendingAfter(out, <<>>)
               /\ reconciled' = ReconciledAfter(out, <<>>)
               /\ UNCHANGED <<conv, editor>>

\* createTag(body), the server asked for at most MaxIds tags
PostTag ==
    /\ Ready
    /\ server.tagCurrentId <= 5 + MaxIds
    /\ \E tag \in TagBodies, tempId \in TempIds, net \in Nets :
           \E out \in {useCreateTag(localStorage, server, ~online, net, tempId, tag)},
              off \in {useCreateTag(localStorage, server, TRUE, net, tempId, tag)} :
               Intent("useCreateTag", [tempId |-> tempId, tag |-> tag], net, TRUE, out, off)

InitServer == Start(MaxServer)

NextServer ==
    \/ Settle
    \/ PostNote \/ PostTag \/ DeleteTag \/ UpdateTags

SpecServer == InitServer /\ [][NextServer]_vars

\* C37: in the Server Repository every NoteTag relation references a note and a
\* tag that both exist; consequently a tag that has just been created is
\* attached to no note.
C37_RelationsResolve ==
    /\ \A noteTag \in Range(server.noteTags) :
           /\ MemStorage_getNote(server, noteTag.noteId) # <<>>
           /\ MemStorage_getTag(server, noteTag.tagId) # <<>>
    /\ (last.op = "useCreateTag" /\ last.remote = "ok") =>
           \A noteTag \in Range(server.noteTags) : noteTag.tagId # last.res.value.id

\* the entities of a Map of repository st2 whose ids repository st does not hold
Created(before, after) == {e \in Range(after) : \A o \in Range(before) : o.id # e.id}

\* the ids of a Map were assigned by its counter: every id held is positive and
\* below the counter, every new entity has the id the counter showed, and the
\* counter has moved on by one for each
Assigned(before, after, counter, counterAfter) ==
    /\ \A e \in Range(before) : 0 < e.id /\ e.id < counter
    /\ \A e \in Created(before, after) : e.id = counter
    /\ counterAfter = counter + Cardinality(Created(before, after))

\* C38: the ids the server assigns to notes and to tags are positive, strictly
\* increasing in creation order and never reused, also after a tag was deleted;
\* a create rejected by validation consumes no id and creates no entity.
C38_IdsAssignedOnce ==
    [][/\ Assigned(server.notes, server'.notes, server.noteCurrentId, server'.noteCurrentId)
       /\ Assigned(server.tags, server'.tags, server.tagCurrentId, server'.tagCurrentId)
       /\ (last'.op \in {"useCreateNote", "useCreateTag"} /\ last'.remote = "rejected") =>
              server' = server]_vars

\* a tag was created after the tag created before it was deleted
C38_CreatedAfterDelete ==
    /\ last.op = "useCreateTag"
    /\ last.remote = "ok"
    /\ last.res.value.id = 7
    /\ MemStorage_getTag(server, 6) = <<>>

----------------------------------------------------------------------------
(* TitleEditor: the title input of an open note and its debounced save.    *)

\* debounce(func, 800) of TitleEditor: the wait in milliseconds
Wait == 800

\* what the user types into the input, one change event each
Titles == {<<"T">>, <<"T", "r">>}

\* the component is mounted for a note the Local Store holds: first render
OpenEditor ==
    /\ ~editor.mounted
    /\ \E id \in NoteIds :
           /\ getOfflineNoteWithTags(localStorage, id) # <<>>
           /\ editor' = [Unmounted EXCEPT
                            !.mounted = TRUE, !.id = id, !.render = 1,
                            !.initialTitle = getOfflineNoteWithTags(localStorage, id)[1].title,
                            !.title = getOfflineNoteWithTags(localStorage, id)[1].title]
    /\ UNCHANGED <<localStorage, server, online, userId, now, last, left, pending, reconciled,
                   dirty, flight, trash, conv, listeners>>

\* the timers that have run out
Due == {timer \in editor.timers : timer.due <= editor.clock}

\* the edits typed so far, timers and saves included
Edits == Len(editor.burst) + Len(editor.sent)

\* handleTitleChange: setTitle(newTitle), then the debounced function of this
\* render is called: it clears the timeout of its own closure, if one is set,
\* and sets a new one; the state change renders the component again, and the
\* next render calls debounce anew
TypeTitle ==
    /\ editor.mounted
    /\ Due = {}
    /\ \E newTitle \in Titles :
           LET own == {timer \in editor.timers : timer.render = editor.render}
               later == [render |-> editor.render, args |-> newTitle,
                         due |-> editor.clock + Wait]
               inBurst == editor.burst # <<>> /\ editor.clock - editor.lastEdit < Wait
           IN  /\ newTitle # editor.title
               /\ (IF inBurst THEN Len(editor.burst) ELSE 0) < MaxEdits
               /\ editor' = [editor EXCEPT
                                !.title = newTitle,
                                !.timers = (@ \ own) \cup {later},
                                !.render = @ + 1,
                                !.lastEdit = editor.clock,
                                !.burst = IF inBurst THEN Append(@, newTitle) ELSE <<newTitle>>,
                                !.sent = IF inBurst THEN @ ELSE <<>>]
    /\ UNCHANGED <<localStorage, server, online, userId, now, last, left, pending, reconciled,
                   dirty, flight, trash, conv, listeners>>

\* time passes, half a wait at a time, once every timer that ran out has fired
Tick ==
    /\ editor.mounted
    /\ Due = {}
    /\ editor.clock < MaxClock
    /\ editor' = [editor EXCEPT !.clock = @ + Wait \div 2]
    /\ UNCHANGED <<localStorage, server, online, userId, now, last, left, pending, reconciled,
                   dirty, flight, trash, conv, listeners>>

\* later() of a timer that ran out: timeout = null, then func(...args), which
\* is updateNote({ id, note: { title: newTitle } }); the mutation renders the
\* component again and its onSuccess invalidates the query of the note
FireTimer ==
    /\ Ready
    /\ \E timer \in Due, net \in Nets, cloudOk \in CloudOks :
           \E out \in {useUpdateNote(localStorage, server, ~online, userId, net, cloudOk, now,
                                     editor.id, [title |-> timer.args])},
              off \in {useUpdateNote(localStorage, server, TRUE, userId, net, cloudOk, now,
                                     editor.id, [title |-> timer.args])} :
               /\ Complete("useUpdateNote", [id |-> editor.id, note |-> [title |-> timer.args]],
                           net, cloudOk, out, off)
               /\ editor' = [editor EXCEPT
                                !.timers = @ \ {timer},
                                !.render = @ + 1,
                                !.stale = @ \/ ~out.res.threw,
                                !.sent = Append(@, [title |-> timer.args,
                                                    after |-> Len(editor.burst),
                                                    at |-> editor.clock])]
    /\ UNCHANGED <<pending, reconciled, conv>>

\* the invalidated query of the note is fetched again; when the title it brings
\* differs from the prop of the last render the effect calls setTitle with it
Refetch ==
    /\ Ready
    /\ editor.mounted
    /\ editor.stale
    /\ \E net \in Nets :
           \E out \in {useNoteById(localStorage, server, ~online, net, editor.id)},
              off \in {useNoteById(localStorage, server, TRUE, net, editor.id)} :
               /\ Complete("useNoteById", [id |-> editor.id], net, TRUE, out, off)
               /\ editor' =
                      IF out.res.threw \/ out.res.value = <<>>
                      THEN [editor EXCEPT !.stale = FALSE]
                      ELSE IF out.res.value[1].title = editor.initialTitle
                      THEN [editor EXCEPT !.stale = FALSE, !.render = @ + 1]
                      ELSE [editor EXCEPT !.stale = FALSE, !.render = @ + 1,
                                          !.initialTitle = out.res.value[1].title,
                                          !.title = out.res.value[1].title]
    /\ UNCHANGED <<pending, reconciled, conv>>

InitEditor == Start(MaxEditor)

\* a note is created and its title edited, MaxEditor intents
NextEditor ==
    \/ Settle
    \/ CreateNote
    \/ OpenEditor \/ TypeTitle \/ Tick \/ FireTimer \/ Refetch

SpecEditor == InitEditor /\ [][NextEditor]_vars

\* typing has stopped: the wait has passed since the last edit of the burst and
\* no timer is left
TypingStopped ==
    /\ editor.burst # <<>>
    /\ editor.clock >= editor.lastEdit + Wait
    /\ editor.timers = {}

\* C39: a burst of title edits, each less than 800 ms after the one before,
\* results in exactly one update intent, issued after typing has stopped and
\* carrying the final title.
C39_BurstSavedOnce ==
    /\ Len(editor.sent) <= 1
    /\ \A i \in 1..Len(editor.sent) :
           /\ editor.sent[i].title = editor.burst[Len(editor.burst)]
           /\ editor.sent[i].after = Len(editor.burst)
           /\ editor.sent[i].at >= editor.lastEdit + Wait
    /\ TypingStopped => Len(editor.sent) = 1

----------------------------------------------------------------------------
(* Connectivity listeners.                                                 *)

\* the two listeners a call adds to window
ListenersOf(onOnline, onOffline) ==
    {[type |-> "online", callback |-> onOnline], [type |-> "offline", callback |-> onOffline]}

\* window after setupConnectivityListeners(onOnline, onOffline): a listener that
\* is there already is not added again
setupConnectivityListeners(window, onOnline, onOffline) ==
    window \cup ListenersOf(onOnline, onOffline)

\* a cleanup that removes the online listener alone
cleanup_onlineOnly(window, onOnline, onOffline) ==
    window \ {[type |-> "online", callback |-> onOnline]}

\* window after the function setupConnectivityListeners returned has run
cleanup(window, onOnline, onOffline) == window \ ListenersOf(onOnline, onOffline)

\* the callbacks the r-th caller passes: two functions of its own
OnOnline(r) == [reg |-> r, on |-> "online"]

OnOffline(r) == [reg |-> r, on |-> "offline"]

\* a component registers its callbacks and keeps the cleanup
Register ==
    /\ \E r \in (1..MaxRegs) \ listeners.registered :
           listeners' = [listeners EXCEPT
                           !.window = setupConnectivityListeners(@, OnOnline(r), OnOffline(r)),
                           !.registered = @ \cup {r}]
    /\ UNCHANGED <<localStorage, server, online, userId, now, last, left, pending, reconciled,
                   dirty, flight, trash, conv, editor>>

\* a kept cleanup runs
Cleanup ==
    /\ \E r \in listeners.registered :
           listeners' = [listeners EXCEPT
                           !.window = cleanup(@, OnOnline(r), OnOffline(r)),
                           !.cleaned = @ \cup {r}]
    /\ UNCHANGED <<localStorage, server, online, userId, now, last, left, pending, reconciled,
                   dirty, flight, trash, conv, editor>>

InitListeners == Start(0)

NextListeners ==
    \/ GoOffline \/ GoOnline
    \/ Register \/ Cleanup

SpecListeners == InitListeners /\ [][NextListeners]_vars

\* C40: the cleanup function returned by registering connectivity listeners
\* unregisters both callbacks: after it has run no connectivity change invokes
\* either of them, and before it has run every connectivity change invokes the
\* matching callback.
C40_CleanupUnregisters ==
    [][online' # online =>
          listeners'.invoked =
              {[reg |-> r, on |-> IF online' THEN "online" ELSE "offline"] :
                  r \in listeners.registered \ listeners.cleaned}]_vars

\* a connectivity change has invoked a callback after another caller's cleanup
C40_InvokedAfterCleanup ==
    /\ listeners.seen # {}
    /\ listeners.invoked # {}

====
